---------------------------- MODULE Spec2Model ----------------------------
(***************************************************************************)
(* A model of the agent service (src/src/service/service.py), the agent    *)
(* registry (src/src/agents/agents.py, mcp_agent.py, research_assistant.py)*)
(* and the Streamlit transcript client (src/src/streamlit_app.py).         *)
(*                                                                         *)
(* Eight specifications share the module:                                  *)
(*   Spec        turn dispatch: agent lookup, _handle_input, the outcome   *)
(*               of the opaque agent execution on the checkpoint store;    *)
(*   SpecStream  message_generator translating an event source into        *)
(*               stream units;                                             *)
(*   SpecFold    the client: main's turn loop and draw_messages folding    *)
(*               stream units into st.session_state.messages;              *)
(*   SpecTurns   streamed turns end to end: an agent run's events pass     *)
(*               through message_generator and the units through           *)
(*               draw_messages;                                            *)
(*   SpecLookup  agent construction: the coroutines of lifespan,           *)
(*               get_agent_with_model and the agent getters, cut where     *)
(*               they suspend, under concurrent requests;                  *)
(*   SpecInterrupts  runs that end normally, in an interrupt or in an      *)
(*               exception, answered by message_generator and by invoke;   *)
(*   SpecRequests  requests on two connections served side by side:        *)
(*               verify_bearer, then the handler with the run_id that      *)
(*               _handle_input gave the turn;                              *)
(*   SpecSession  one UI session turn by turn: the thread_id of the turns, *)
(*               New Chat, and handle_feedback on the script runs after a  *)
(*               turn.                                                     *)
(* The agent-graph framework, the model providers and the checkpoint store *)
(* are external: what they hand to this code is chosen nondeterministically*)
(* from bounded sets.                                                      *)
(***************************************************************************)
EXTENDS Naturals, Sequences, FiniteSets, TLC

VARIABLES
    \* ---- service process (service.py, agents/*.py)
    started,        \* lifespan has run: the app serves requests
    saver,          \* service._saver: "None" or the opened saver
    registry_cp,    \* checkpointer of each registered agent singleton (_agent)
    agent_cache,    \* service._agent_cache: model name -> checkpointer of the instance
    store,          \* checkpoint stores: checkpointer -> thread -> tasks of the state
    turn,           \* the request being served: NoTurn, a dispatched turn, or a rejection
    \* ---- history variables about finished turns (not program state)
    awaiting,       \* thread -> a turn ended with an interrupt and none has completed since
    resume_due,     \* thread -> the last execution that moved the checkpoint left an interrupt
    \* ---- one /stream response (message_generator)
    sv_pc,          \* "idle", "streaming", "done" (generator returned), "aborted" (it raised)
    sv_input,       \* user_input: message and stream_tokens
    sv_run,         \* run_id of the turn being streamed
    final_ai_message_sent,
    is_last_update,
    out,            \* the units yielded on this response, in order
    n_events,       \* events taken from agent.astream in this response
    n_streams,      \* responses started
    next_uuid,      \* source of uuid4 values for temporary tool-call ids
    \* ---- the Streamlit session (streamlit_app.py)
    messages,       \* st.session_state.messages: the transcript
    dm,             \* the frame of the running draw_messages call (its locals)
    rd,             \* units of `out` the client has taken from the response
    last_item,      \* history: the item draw_messages took last in this call
    n_items,        \* items handed to draw_messages in this session
    n_turns,        \* turns submitted in this session
    \* ---- the agent execution behind a streamed turn (external)
    agent_run,      \* the events the run has yet to produce, and its final answer
    \* ---- agent construction (service.py, agents/mcp_agent.py, research_assistant.py)
    mcp_client,     \* _mcp_client of each agent module: "None", "entering", "ready", "failed"
    instances,      \* the compiled graphs initialize_agent has returned, in order
    module_agent,   \* _agent of each agent module: an index into instances, or NoInstance
    instance_cache, \* service._agent_cache: model name -> index into instances, or NoInstance
    task,           \* the frame of each coroutine: lifespan and the requests in flight
    \* ---- the /invoke endpoint
    invoke_response, \* what the last /invoke request was answered with
    \* ---- requests served side by side
    auth_secret,    \* settings.AUTH_SECRET once the settings are loaded
    frames,         \* per connection: the request it carries and what was answered
    n_runs,         \* how many run ids uuid4 has produced
    \* ---- one UI session turn by turn (streamlit_app.py main, handle_feedback)
    ss_thread_id,   \* st.session_state.thread_id
    start_new_chat, \* st.session_state.start_new_chat
    n_chats,        \* how many thread ids uuid4 has produced for New Chat
    turns_sent,     \* the turns sent: the chat each belongs to and its thread_id
    last_feedback,  \* st.session_state.last_feedback
    stars,          \* the feedback widget: its key and its value
    attempts,       \* acreate_feedback calls made for the present selection
    recorded,       \* those of them that succeeded
    n_reruns        \* script runs that reached the feedback widget

dispatch_vars == <<started, saver, registry_cp, agent_cache, store, turn,
                   awaiting, resume_due>>

stream_vars == <<sv_pc, sv_input, sv_run, final_ai_message_sent, is_last_update,
                 out, n_events, n_streams, next_uuid>>

client_vars == <<messages, dm, rd, last_item, n_items, n_turns>>

env_vars == <<agent_run>>

lookup_vars == <<mcp_client, instances, module_agent, instance_cache, task>>

invoke_vars == <<invoke_response>>

request_vars == <<auth_secret, frames, n_runs>>

session_vars == <<ss_thread_id, start_new_chat, n_chats, turns_sent, last_feedback, stars,
                  attempts, recorded, n_reruns>>

vars == <<dispatch_vars, stream_vars, client_vars, env_vars, lookup_vars, invoke_vars,
          request_vars, session_vars>>

---------------------------------------------------------------------------
(* Bounds of the model *)

MaxTasks == 2
MaxEvents == 2
MaxStreams == 2
MaxItems == 4
MaxTurns == 2
MaxRequests == 2
MaxRuns == 2
MaxUnits == 1
MaxChats == 1
MaxSent == 2
MaxReruns == 3

---------------------------------------------------------------------------
(* Values *)

None == "None"
NoTurn == [kind |-> "none"]

DEFAULT_AGENT == "mcp-agent"
AGENTS == {"research-assistant", "mcp-agent"}
AgentIds == AGENTS \cup {"no-such-agent"}
Models == {"m1"}
ModelArgs == Models \cup {None}
Threads == {"t1", "t2"}
UserMessages == {"hi", "yes"}
Endpoints == {"invoke", "stream"}

\* The keys a client may put into agent_config.
ConfigKeys == {"thread_id", "model", "spicy"}
AgentConfigs == {{}, {<<"spicy", "hot">>}, {<<"model", "m9">>, <<"spicy", "hot">>}}

\* A task of a state snapshot: whether it has the attribute `interrupts`, and its
\* interrupts (the values of the pending interrupts).
Tasks == { [has_attr |-> TRUE, interrupts |-> <<>>],
           [has_attr |-> TRUE, interrupts |-> <<"approve?">>] }

RECURSIVE SeqsUpTo(_, _)
SeqsUpTo(S, n) ==
    IF n = 0 THEN {<<>>}
    ELSE LET shorter == SeqsUpTo(S, n - 1)
         IN  shorter \cup {Append(s, x) : s \in {t \in shorter : Len(t) = n - 1}, x \in S}

TaskLists == SeqsUpTo(Tasks, MaxTasks)

Checkpointers == {"saver", "MemorySaver:research-assistant", "MemorySaver:mcp-agent"}

---------------------------------------------------------------------------
(* service.py: agent lookup *)

\* agents.py get_agent: the registered getter, or ValueError.
get_agent_found(agent_id) == agent_id \in AGENTS

\* get_agent_with_model takes the model-specific branch.
UsesCache(agent_id, model_name) == agent_id = "mcp-agent" /\ model_name # None

\* The checkpointer a new model-specific instance gets (service.py 59-63).
NewInstanceCheckpointerMutPrivate == "MemorySaver:mcp-agent"

NewInstanceCheckpointer == IF saver # None THEN saver ELSE None

\* _agent_cache after get_agent_with_model(agent_id, model_name).
CacheAfterLookup(agent_id, model_name) ==
    IF UsesCache(agent_id, model_name) /\ agent_cache[model_name] = "absent"
    THEN [agent_cache EXCEPT ![model_name] = NewInstanceCheckpointer]
    ELSE agent_cache

\* The checkpointer of the instance get_agent_with_model returns.
InstanceCheckpointer(agent_id, model_name) ==
    IF UsesCache(agent_id, model_name)
    THEN CacheAfterLookup(agent_id, model_name)[model_name]
    ELSE registry_cp[agent_id]

---------------------------------------------------------------------------
(* service.py: _handle_input *)

\* interrupted_tasks of _handle_input: the tasks with a truthy `interrupts`.
InterruptedTasksMutFirst(tasks) ==
    IF Len(tasks) > 0 /\ tasks[1].has_attr /\ tasks[1].interrupts # <<>>
    THEN {1} ELSE {}

interrupted_tasks(tasks) ==
    {i \in 1..Len(tasks) : tasks[i].has_attr /\ tasks[i].interrupts # <<>>}

\* The input _handle_input builds for the agent.
HandleInputKind(tasks) ==
    IF interrupted_tasks(tasks) # {} THEN "resume" ELSE "fresh"

TurnInput(tasks, message) ==
    IF HandleInputKind(tasks) = "resume"
    THEN [kind |-> "resume", resume |-> message]
    ELSE [kind |-> "fresh", messages |-> <<[type |-> "human", content |-> message]>>]

\* The keys of a dict, which the model writes as a set of <<key, value>> pairs.
Keys(d) == {kv[1] : kv \in d}

\* Only thread_id is treated as reserved.
ReservedOverlapMutThreadOnly(agent_config) == {"thread_id"} \cap Keys(agent_config)

\* The reserved keys collide with agent_config (service.py 138-143).
ReservedOverlap(agent_config) == {"thread_id", "model"} \cap Keys(agent_config)

\* configurable of the run (service.py 136-144): thread_id and model of the
\* request, then dict.update with agent_config.
Configurable(thread_id, model_name, agent_config) ==
    LET configurable == {<<"thread_id", thread_id>>, <<"model", model_name>>}
    IN  {kv \in configurable : kv[1] \notin Keys(agent_config)} \cup agent_config

---------------------------------------------------------------------------
(* Messages and stream units *)

\* Tool calls of an AI message: {id, name, args}; args are not modelled.
Call(id, name) == [id |-> id, name |-> name]

\* A message of the agent framework (langchain_core.messages): its class, content,
\* tool calls (AIMessage) and tool_call_id (ToolMessage). Class "custom" is the
\* framework's ChatMessage with role "custom", whose content carries custom data;
\* class "system" stands for every class the conversion does not support.
LCMessage(cls, content, tool_calls, tool_call_id) ==
    [cls |-> cls, content |-> content, tool_calls |-> tool_calls,
     tool_call_id |-> tool_call_id]

HumanMessage(content) == LCMessage("human", content, <<>>, None)
AIMessage(content, tool_calls) == LCMessage("ai", content, tool_calls, None)
ToolMessage(content, tool_call_id) == LCMessage("tool", content, <<>>, tool_call_id)
CustomMessage(data) == LCMessage("custom", data, <<>>, None)
SystemMessage(content) == LCMessage("system", content, <<>>, None)

\* schema.ChatMessage.
ChatMessage(type, content, tool_calls, tool_call_id, run_id, custom_data) ==
    [type |-> type, content |-> content, tool_calls |-> tool_calls,
     tool_call_id |-> tool_call_id, run_id |-> run_id, custom_data |-> custom_data]

NoMessage == ChatMessage("none", "", <<>>, None, None, "")

\* The units of the SSE stream: data: {type, content} lines and data: [DONE].
MessageUnit(chat_message) == [type |-> "message", text |-> "", message |-> chat_message]
TokenUnit(text) == [type |-> "token", text |-> text, message |-> NoMessage]
ErrorUnit == [type |-> "error", text |-> "Unexpected error", message |-> NoMessage]
DoneUnit == [type |-> "DONE", text |-> "", message |-> NoMessage]

\* Python truthiness of an optional string.
Falsy(x) == x = None \/ x = ""

---------------------------------------------------------------------------
(* service/utils.py (not in src/): the conversions message_generator calls *)

\* langchain_to_chat_message raises ValueError for an unsupported message.
Convertible(message) == message.cls \in {"human", "ai", "tool", "custom"}

langchain_to_chat_message(message) ==
    CASE message.cls = "human" ->
            ChatMessage("human", message.content, <<>>, None, None, "")
      [] message.cls = "ai" ->
            ChatMessage("ai", message.content, message.tool_calls, None, None, "")
      [] message.cls = "tool" ->
            ChatMessage("tool", message.content, <<>>, message.tool_call_id, None, "")
      [] OTHER ->
            ChatMessage("custom", "", <<>>, None, None, message.content)

\* remove_tool_calls then convert_message_content_to_string on a chunk's content:
\* string content is kept; a content list keeps the text of its text parts and
\* loses its tool_use parts.
ChunkText(chunk) == IF chunk.content_kind = "tool_use_parts" THEN "" ELSE chunk.content

---------------------------------------------------------------------------
(* service.py message_generator: translating one event *)

SubAgentNodes == {"research_expert", "math_expert"}

\* An entry of an updates event makes the extraction raise: a payload that is not a
\* dict (None) has no .get; a sub-agent step with no message has no [0].
EntryRaises(entry) ==
    /\ entry.node # "__interrupt__"
    /\ \/ entry.payload.kind = "none"
       \/ /\ entry.node \in SubAgentNodes
          /\ (entry.payload.kind = "nokey" \/ entry.payload.messages = <<>>)

\* The messages one entry (node, updates) of an updates event contributes.
RECURSIVE InterruptMessages(_)
InterruptMessages(values) ==
    IF values = <<>> THEN <<>>
    ELSE <<AIMessage(Head(values), <<>>)>> \o InterruptMessages(Tail(values))

RECURSIVE LastAIMessage(_)
LastAIMessage(msgs) ==
    IF msgs = <<>> THEN <<>>
    ELSE IF msgs[Len(msgs)].cls = "ai" THEN <<msgs[Len(msgs)]>>
    ELSE LastAIMessage(SubSeq(msgs, 1, Len(msgs) - 1))

EntryMessages(entry) ==
    IF entry.node = "__interrupt__" THEN InterruptMessages(entry.payload.values)
    ELSE LET update_messages ==
                 IF entry.payload.kind = "messages" THEN entry.payload.messages ELSE <<>>
         IN  IF entry.node = "supervisor"
             THEN IF LastAIMessage(update_messages) # <<>>
                  THEN LastAIMessage(update_messages) ELSE update_messages
             ELSE IF entry.node \in SubAgentNodes
             THEN <<ToolMessage(update_messages[1].content, "")>>
             ELSE update_messages

RECURSIVE EntriesMessages(_)
EntriesMessages(entries) ==
    IF entries = <<>> THEN <<>>
    ELSE EntryMessages(Head(entries)) \o EntriesMessages(Tail(entries))

\* The test of lines 229-232 raises: the first value of the event is None.
LastUpdateTestRaises(event) ==
    /\ event.mode = "updates"
    /\ event.entries # <<>>
    /\ event.entries[1].payload.kind = "none"

\* is_last_update after the test of lines 229-232.
IsLastUpdateAfter(event, before) ==
    IF /\ event.mode = "updates"
       /\ event.entries # <<>>
       /\ event.entries[1].payload.kind = "messages"
    THEN TRUE ELSE before

\* Translating the event raises outside the try block: the generator ends there.
EventRaises(event) ==
    \/ LastUpdateTestRaises(event)
    \/ /\ event.mode = "updates"
       /\ \E i \in 1..Len(event.entries) : EntryRaises(event.entries[i])

\* new_messages of the event (lines 234-263).
new_messages(event) ==
    CASE event.mode = "updates" -> EntriesMessages(event.entries)
      [] event.mode = "custom" -> <<event.payload>>
      [] OTHER -> <<>>

\* The temporary id given to a tool message without one.
TempToolId(n) == "temp_tool_" \o ToString(n)

\* The test of line 290 dropping every human message.
IsInputEchoMutAnyHuman(chat_message, input) == chat_message.type = "human"

\* Line 290: the message is taken for the input that the framework re-sends.
IsInputEcho(chat_message, input) ==
    chat_message.type = "human" /\ chat_message.content = input.message

\* The test of line 294 missing an empty string.
LacksToolCallIdMutNoneOnly(chat_message) ==
    chat_message.type = "tool" /\ chat_message.tool_call_id = None

\* Line 294: a tool message without a tool_call_id.
LacksToolCallId(chat_message) ==
    chat_message.type = "tool" /\ Falsy(chat_message.tool_call_id)

\* One pass of the loop of lines 265-298 over `message`; acc holds the units yielded
\* so far, final_ai_message_sent and the uuid source.
YieldMessage(acc, message, input, run_id, last_update) ==
    IF ~Convertible(message)
    THEN [acc EXCEPT !.units = Append(@, ErrorUnit)]
    ELSE LET chat_message == [langchain_to_chat_message(message) EXCEPT !.run_id = run_id]
             tagged == /\ input.stream_tokens
                       /\ last_update
                       /\ message.cls = "ai"
                       /\ message.tool_calls = <<>>
                       /\ ~acc.sent
             sent == acc.sent \/ tagged
         IN  IF IsInputEcho(chat_message, input)
             THEN [acc EXCEPT !.sent = sent]
             ELSE IF LacksToolCallId(chat_message)
             THEN [units |-> Append(acc.units, MessageUnit(
                                [chat_message EXCEPT !.tool_call_id = TempToolId(acc.uuid)])),
                   sent |-> sent, uuid |-> acc.uuid + 1]
             ELSE [units |-> Append(acc.units, MessageUnit(chat_message)),
                   sent |-> sent, uuid |-> acc.uuid]

RECURSIVE YieldMessages(_, _, _, _, _)
YieldMessages(acc, msgs, input, run_id, last_update) ==
    IF msgs = <<>> THEN acc
    ELSE YieldMessages(YieldMessage(acc, Head(msgs), input, run_id, last_update),
                       Tail(msgs), input, run_id, last_update)

\* The same without the test of the 'skip_stream' tag.
TokenUnitsMutIgnoresTag(event, input) ==
    IF /\ event.mode = "messages"
       /\ input.stream_tokens
       /\ event.chunk.cls = "AIMessageChunk"
       /\ ChunkText(event.chunk) # ""
    THEN <<TokenUnit(ChunkText(event.chunk))>>
    ELSE <<>>

\* The token unit of a messages-mode event, if it yields one (lines 300-315).
TokenUnits(event, input) ==
    IF /\ event.mode = "messages"
       /\ input.stream_tokens
       /\ ~event.skip_stream
       /\ event.chunk.cls = "AIMessageChunk"
       /\ ChunkText(event.chunk) # ""
    THEN <<TokenUnit(ChunkText(event.chunk))>>
    ELSE <<>>

\* The same with the units of the event yielded newest first.
TranslateMutNewestFirst(event, input, run_id, sent, last_update, uuid) ==
    LET last == IsLastUpdateAfter(event, last_update)
        acc == YieldMessages([units |-> <<>>, sent |-> sent, uuid |-> uuid],
                             new_messages(event), input, run_id, last)
        units == acc.units \o TokenUnits(event, input)
    IN  [units |-> [i \in 1..Len(units) |-> units[Len(units) + 1 - i]],
         sent |-> acc.sent, last |-> last, uuid |-> acc.uuid]

\* Everything one iteration of the async for yields, with the state it leaves.
Translate(event, input, run_id, sent, last_update, uuid) ==
    LET last == IsLastUpdateAfter(event, last_update)
        acc == YieldMessages([units |-> <<>>, sent |-> sent, uuid |-> uuid],
                             new_messages(event), input, run_id, last)
    IN  [units |-> acc.units \o TokenUnits(event, input),
         sent |-> acc.sent, last |-> last, uuid |-> acc.uuid]

---------------------------------------------------------------------------
(* The events agent.astream hands to message_generator *)

UpdatesEvent(entries) == [mode |-> "updates", entries |-> entries]
Entry(node, payload) == [node |-> node, payload |-> payload]
WithMessages(msgs) == [kind |-> "messages", messages |-> msgs, values |-> <<>>]
WithoutMessages == [kind |-> "nokey", messages |-> <<>>, values |-> <<>>]
NonePayload == [kind |-> "none", messages |-> <<>>, values |-> <<>>]
Interrupts(values) == [kind |-> "interrupts", messages |-> <<>>, values |-> values]
NodeUpdate(node, msgs) == UpdatesEvent(<<Entry(node, WithMessages(msgs))>>)

MessagesEvent(cls, content_kind, content, skip_stream) ==
    [mode |-> "messages",
     chunk |-> [cls |-> cls, content_kind |-> content_kind, content |-> content],
     skip_stream |-> skip_stream]
CustomEvent(payload) == [mode |-> "custom", payload |-> payload]
NonTupleEvent == [mode |-> "nontuple"]

c1 == Call("c1", "search")
c2 == Call("c2", "calc")

Events ==
    { NonTupleEvent,
      \* the agent node: input echo, tool-calling message, tool result, final answer
      NodeUpdate("agent", <<HumanMessage("hi"), AIMessage("", <<c1>>)>>),
      NodeUpdate("agent", <<ToolMessage("r1", "c1")>>),
      NodeUpdate("agent", <<AIMessage("4", <<>>)>>),
      NodeUpdate("agent", <<HumanMessage("yes"), AIMessage("5", <<>>)>>),
      NodeUpdate("agent", <<ToolMessage("r1", ""), ToolMessage("r1", "")>>),
      NodeUpdate("agent", <<SystemMessage("s"), AIMessage("4", <<>>)>>),
      UpdatesEvent(<<Entry("agent", WithoutMessages)>>),
      UpdatesEvent(<<Entry("agent", NonePayload)>>),
      UpdatesEvent(<<Entry("agent", WithMessages(<<AIMessage("4", <<>>)>>)),
                     Entry("tools", NonePayload)>>),
      \* the supervisor and its sub-agents
      NodeUpdate("supervisor", <<HumanMessage("yes"), AIMessage("4", <<>>),
                                 ToolMessage("r1", "c1"), AIMessage("5", <<>>)>>),
      NodeUpdate("supervisor", <<ToolMessage("r1", "c1"), ToolMessage("r2", "c2")>>),
      NodeUpdate("research_expert", <<AIMessage("4", <<>>)>>),
      NodeUpdate("math_expert", <<AIMessage("4", <<>>), AIMessage("5", <<>>)>>),
      NodeUpdate("research_expert", <<>>),
      \* interrupts
      UpdatesEvent(<<Entry("__interrupt__", Interrupts(<<"approve?">>))>>),
      UpdatesEvent(<<Entry("__interrupt__", Interrupts(<<"approve?", "sure?">>))>>),
      \* token deltas
      MessagesEvent("AIMessageChunk", "text", "4", FALSE),
      MessagesEvent("AIMessageChunk", "text", "", FALSE),
      MessagesEvent("AIMessageChunk", "text", "4", TRUE),
      MessagesEvent("AIMessageChunk", "tool_use_parts", "", FALSE),
      MessagesEvent("ToolMessage", "text", "r1", FALSE),
      \* custom events
      CustomEvent(CustomMessage("task1")),
      CustomEvent(SystemMessage("s")) }

---------------------------------------------------------------------------
(* service.py invoke: the answer to a /invoke request *)

ValuesEvent(msgs) == [mode |-> "values", messages |-> msgs]

Response(status, chat_message) ==
    [status |-> status, message |-> chat_message, detail |-> ""]
NoResponse == Response(0, NoMessage)

\* HTTPException(status_code=500, detail="Unexpected error") of lines 200-202.
Http500 == [Response(500, NoMessage) EXCEPT !.detail = "Unexpected error"]

\* The handler passing the exception's text to the client.
InvokeFailureMutVerbatim(exception) == [Http500 EXCEPT !.detail = exception]

\* Lines 200-202: `except Exception as e` logs e and raises the HTTPException.
InvokeFailure(exception) == Http500

\* The first entry of an updates chunk under the key "__interrupt__", or 0.
InterruptEntry(entries) ==
    IF \E i \in 1..Len(entries) : entries[i].node = "__interrupt__"
    THEN CHOOSE i \in 1..Len(entries) : entries[i].node = "__interrupt__"
    ELSE 0

\* The interrupt whose value invoke returns, with another than response[...][0].
AnsweredInterruptMutLast(values) == Len(values)

\* Line 193: response["__interrupt__"][0]
AnsweredInterrupt(values) == 1

\* Lines 183-199: the output built from the last element of what ainvoke returned
\* with stream_mode ["updates", "values"]; every exception becomes a 500.
invoke_output(response_events, run_id) ==
    IF response_events = <<>> THEN InvokeFailure("IndexError: list index out of range")
    ELSE LET last == response_events[Len(response_events)]
         IN  IF last.mode = "values"
             THEN IF last.messages = <<>> \/ ~Convertible(last.messages[Len(last.messages)])
                  THEN InvokeFailure("ValueError: Unsupported message type")
                  ELSE Response(200,
                         [langchain_to_chat_message(last.messages[Len(last.messages)])
                            EXCEPT !.run_id = run_id])
             ELSE IF last.mode = "updates" /\ InterruptEntry(last.entries) # 0
             THEN LET values == last.entries[InterruptEntry(last.entries)].payload.values
                  IN  IF values = <<>> THEN InvokeFailure("IndexError: tuple index out of range")
                      ELSE Response(200,
                             [langchain_to_chat_message(
                                  AIMessage(values[AnsweredInterrupt(values)], <<>>))
                                EXCEPT !.run_id = run_id])
             ELSE InvokeFailure("ValueError: Unexpected response type: " \o last.mode)

\* What agent.ainvoke returns to invoke: the chunks of the run, in order.
InvokeRuns ==
    { \* the run completes
      <<NodeUpdate("agent", <<AIMessage("4", <<>>)>>),
        ValuesEvent(<<HumanMessage("hi"), AIMessage("4", <<>>)>>)>>,
      \* the run is suspended by one interrupt, by two
      <<ValuesEvent(<<HumanMessage("hi")>>),
        UpdatesEvent(<<Entry("__interrupt__", Interrupts(<<"approve?">>))>>)>>,
      <<ValuesEvent(<<HumanMessage("hi")>>),
        UpdatesEvent(<<Entry("__interrupt__", Interrupts(<<"approve?", "sure?">>))>>)>>,
      \* the last chunk is the update of a node
      <<ValuesEvent(<<HumanMessage("hi")>>),
        NodeUpdate("agent", <<AIMessage("4", <<>>)>>)>> }

\* A /invoke request is answered; the agent lookup and _handle_input succeeded and
\* ainvoke returned response_events.
Invoke(response_events) ==
    /\ invoke_response' = invoke_output(response_events, "run-invoke")
    /\ UNCHANGED <<session_vars, request_vars, dispatch_vars, stream_vars, client_vars, env_vars, lookup_vars>>

\* What agent.ainvoke may raise: the text of the exception.
Exceptions == {"RuntimeError: model endpoint api-key sk-1 rejected"}

\* A /invoke request whose agent execution raises.
InvokeRaises(exception) ==
    /\ invoke_response' = InvokeFailure(exception)
    /\ UNCHANGED <<session_vars, request_vars, dispatch_vars, stream_vars, client_vars, env_vars, lookup_vars>>

---------------------------------------------------------------------------
(* message_generator as a process *)

StreamInputs == [message : {"hi"}, stream_tokens : BOOLEAN]

RunId(n) == "run" \o ToString(n)

\* A /stream request arrives; the agent lookup and _handle_input succeed.
StreamStart(user_input) ==
    /\ sv_pc \in {"idle", "done", "aborted"}
    /\ n_streams < MaxStreams
    /\ sv_pc' = "streaming"
    /\ sv_input' = user_input
    /\ sv_run' = RunId(n_streams + 1)
    /\ final_ai_message_sent' = FALSE
    /\ is_last_update' = FALSE
    /\ out' = <<>>
    /\ n_events' = 0
    /\ n_streams' = n_streams + 1
    /\ UNCHANGED <<session_vars, request_vars, invoke_vars, lookup_vars, dispatch_vars, client_vars, env_vars, next_uuid>>

\* A /stream request arrives and get_agent_with_model or _handle_input raises
\* inside the generator (lines 213-214): nothing is yielded.
StreamStartFails(user_input) ==
    /\ sv_pc \in {"idle", "done", "aborted"}
    /\ n_streams < MaxStreams
    /\ sv_pc' = "aborted"
    /\ sv_input' = user_input
    /\ sv_run' = None
    /\ final_ai_message_sent' = FALSE
    /\ is_last_update' = FALSE
    /\ out' = <<>>
    /\ n_events' = 0
    /\ n_streams' = n_streams + 1
    /\ UNCHANGED <<session_vars, request_vars, invoke_vars, lookup_vars, dispatch_vars, client_vars, env_vars, next_uuid>>

\* agent.astream hands over its next event and the loop body runs on it.
StreamEvent(event) ==
    /\ sv_pc = "streaming"
    /\ n_events < MaxEvents
    /\ ~EventRaises(event)
    /\ LET t == Translate(event, sv_input, sv_run, final_ai_message_sent,
                          is_last_update, next_uuid)
       IN  /\ out' = out \o t.units
           /\ final_ai_message_sent' = t.sent
           /\ is_last_update' = t.last
           /\ next_uuid' = t.uuid
    /\ n_events' = n_events + 1
    /\ UNCHANGED <<session_vars, request_vars, invoke_vars, lookup_vars, dispatch_vars, client_vars, env_vars, sv_pc, sv_input, sv_run, n_streams>>

\* The loop body raises outside its try block on the event: the generator raises.
StreamEventRaises(event) ==
    /\ sv_pc = "streaming"
    /\ n_events < MaxEvents
    /\ EventRaises(event)
    /\ sv_pc' = "aborted"
    /\ is_last_update' = IF LastUpdateTestRaises(event) THEN is_last_update
                         ELSE IsLastUpdateAfter(event, is_last_update)
    /\ n_events' = n_events + 1
    /\ UNCHANGED <<session_vars, request_vars, invoke_vars, lookup_vars, dispatch_vars, client_vars, env_vars, sv_input, sv_run, final_ai_message_sent, out,
                   n_streams, next_uuid>>

\* agent.astream raises (the agent execution fails): the async for is not inside a
\* try, so the generator raises too.
StreamSourceRaises ==
    /\ sv_pc = "streaming"
    /\ sv_pc' = "aborted"
    /\ UNCHANGED <<session_vars, request_vars, invoke_vars, lookup_vars, dispatch_vars, client_vars, env_vars, sv_input, sv_run, final_ai_message_sent,
                   is_last_update, out, n_events, n_streams, next_uuid>>

CloseStreamMutSilent(units) == units

\* The statement after the loop (line 317).
CloseStream(units) == Append(units, DoneUnit)

\* agent.astream is exhausted: the loop ends and line 317 runs.
StreamExhausted ==
    /\ sv_pc = "streaming"
    /\ sv_pc' = "done"
    /\ out' = CloseStream(out)
    /\ UNCHANGED <<session_vars, request_vars, invoke_vars, lookup_vars, dispatch_vars, client_vars, env_vars, sv_input, sv_run, final_ai_message_sent,
                   is_last_update, n_events, n_streams, next_uuid>>

StreamNext ==
    \/ \E i \in StreamInputs : StreamStart(i)
    \/ \E i \in StreamInputs : StreamStartFails(i)
    \/ StreamSourceRaises
    \/ StreamExhausted
    \/ \E e \in Events : StreamEvent(e)
    \/ \E e \in Events : StreamEventRaises(e)

\* The state updates of single steps among the events: of the agent node, of an
\* interrupt step.
StepEvents ==
    { NodeUpdate("agent", <<HumanMessage("hi"), AIMessage("", <<c1>>)>>),
      NodeUpdate("agent", <<ToolMessage("r1", "c1")>>),
      NodeUpdate("agent", <<AIMessage("4", <<>>)>>),
      NodeUpdate("agent", <<SystemMessage("s"), AIMessage("4", <<>>)>>),
      UpdatesEvent(<<Entry("__interrupt__", Interrupts(<<"approve?">>))>>),
      UpdatesEvent(<<Entry("__interrupt__", Interrupts(<<"approve?", "sure?">>))>>) }

\* Runs that end normally, in an interrupt or in an exception, served by /stream
\* and by /invoke.
InterruptNext ==
    \/ \E i \in StreamInputs : StreamStart(i)
    \/ StreamExhausted
    \/ \E e \in StepEvents : StreamEvent(e)
    \/ \E response_events \in InvokeRuns : Invoke(response_events)
    \/ \E exception \in Exceptions : InvokeRaises(exception)

---------------------------------------------------------------------------
(* streamlit_app.py draw_messages: folding one item of the stream *)

\* What the async generator hands to draw_messages: a token (str), a ChatMessage,
\* or an object that is neither.
StrItem(text) == [kind |-> "str", text |-> text, message |-> NoMessage]
MessageItem(chat_message) == [kind |-> "ChatMessage", text |-> "", message |-> chat_message]
ObjectItem == [kind |-> "object", text |-> "", message |-> NoMessage]
NoItem == [kind |-> "none", text |-> "", message |-> NoMessage]

\* schema.task_data (not in src/): TaskData.model_validate accepts the custom data.
ValidTaskData(custom_data) == custom_data \in {"task1", "task2"}

\* The locals of draw_messages at its start (lines 260-268). pc is the position of
\* the call: "drawing" (the while loop, line 270), "span" (the for loop awaiting tool
\* results, line 358), "returned", "halted" (st.stop), "crashed" (an uncaught
\* exception).
DrawStart(is_new) ==
    [pc |-> "drawing", is_new |-> is_new, last_message_type |-> None,
     streaming_content |-> "", streaming_placeholder |-> FALSE,
     final_message_appended |-> FALSE, tool_calls_seen |-> <<>>,
     tool_responses_seen |-> <<>>, call_results |-> <<>>, remaining |-> 0]

\* The call has ended and its locals are gone.
Ended(how) == [DrawStart(FALSE) EXCEPT !.pc = how]

NoDraw == Ended("returned")

InSeq(x, seq) == \E i \in 1..Len(seq) : seq[i] = x

AiDuplicateMutContentOnly(transcript, msg) ==
    \E i \in 1..Len(transcript) :
        transcript[i].type = "ai" /\ transcript[i].content = msg.content

\* The duplicate test of an ai message (lines 304-310).
AiDuplicate(transcript, msg) ==
    \E i \in 1..Len(transcript) :
        /\ transcript[i].type = "ai"
        /\ \/ (msg.content # "" /\ transcript[i].content = msg.content)
           \/ (msg.tool_calls # <<>> /\ transcript[i].tool_calls = msg.tool_calls)

\* The duplicate test of a tool message (lines 373-379 and 412-418).
ToolDuplicate(transcript, msg) ==
    \E i \in 1..Len(transcript) :
        /\ transcript[i].type = "tool"
        /\ transcript[i].tool_call_id = msg.tool_call_id
        /\ transcript[i].content = msg.content

\* The duplicate test of a custom message (lines 438-443).
CustomDuplicate(transcript, msg) ==
    \E i \in 1..Len(transcript) :
        /\ transcript[i].type = "custom"
        /\ transcript[i].custom_data = msg.custom_data

StreamedDuplicateMutNever(transcript, content) == FALSE

\* The duplicate test of the message built from the streamed tokens (lines 468-472).
StreamedDuplicate(transcript, content) ==
    \E i \in 1..Len(transcript) :
        transcript[i].type = "ai" /\ transcript[i].content = content

\* An ai message is appended (lines 302-314).
AiAppended(transcript, frame, msg) ==
    /\ frame.is_new
    /\ (msg.content # "" \/ msg.tool_calls # <<>>)
    /\ ~AiDuplicate(transcript, msg)

SpanToolAppendedMutAlways(transcript, frame, msg) == frame.is_new

\* A tool result taken inside the span of an AI message is appended (lines 371-382).
SpanToolAppended(transcript, frame, msg) ==
    frame.is_new /\ ~ToolDuplicate(transcript, msg)

\* A tool message outside a span is appended (lines 406-421).
LoneToolAppended(transcript, frame, msg) ==
    /\ frame.is_new
    /\ ~InSeq(msg, frame.tool_responses_seen)
    /\ ~ToolDuplicate(transcript, msg)

\* A custom message is appended (lines 430-446).
CustomAppended(transcript, frame, msg) ==
    /\ ValidTaskData(msg.custom_data)
    /\ frame.is_new
    /\ ~CustomDuplicate(transcript, msg)

RECURSIVE AddUnseen(_, _)
AddUnseen(seen, xs) ==
    IF xs = <<>> THEN seen
    ELSE AddUnseen(IF InSeq(Head(xs), seen) THEN seen ELSE Append(seen, Head(xs)), Tail(xs))

\* call_results (lines 348-356): one status per tool-call id, in the order the ids
\* first appear.
RECURSIVE CallResults(_, _, _)
CallResults(slots, tool_calls, is_new) ==
    IF tool_calls = <<>> THEN slots
    ELSE LET id == Head(tool_calls).id
             status == [id |-> id, state |-> IF is_new THEN "running" ELSE "complete",
                        output |-> None]
             known == \E i \in 1..Len(slots) : slots[i].id = id
         IN  CallResults(
                 IF known
                 THEN [i \in 1..Len(slots) |-> IF slots[i].id = id THEN status ELSE slots[i]]
                 ELSE Append(slots, status),
                 Tail(tool_calls), is_new)

\* The slot a tool result is written to (lines 384-388): the one with its id, else
\* the first.
SlotOf(slots, tool_call_id) ==
    IF \E i \in 1..Len(slots) : slots[i].id = tool_call_id
    THEN CHOOSE i \in 1..Len(slots) : slots[i].id = tool_call_id
    ELSE 1

\* A token (lines 271-288).
FoldToken(transcript, frame, text) ==
    [messages |-> transcript,
     frame |-> [frame EXCEPT
                  !.last_message_type =
                      IF ~frame.streaming_placeholder THEN "ai" ELSE @,
                  !.streaming_placeholder = TRUE,
                  !.streaming_content = @ \o text]]

\* An ai message (lines 300-356), up to the loop awaiting its tool results.
FoldAi(transcript, frame, msg) ==
    LET appended == AiAppended(transcript, frame, msg)
        replaces == msg.content # "" /\ frame.streaming_placeholder
        slots == CallResults(<<>>, msg.tool_calls, frame.is_new)
    IN  [messages |-> IF appended THEN Append(transcript, msg) ELSE transcript,
         frame |-> [frame EXCEPT
                      !.final_message_appended = @ \/ (appended /\ msg.content # ""),
                      !.last_message_type = "ai",
                      !.streaming_content = IF replaces THEN "" ELSE @,
                      !.streaming_placeholder = IF replaces THEN FALSE ELSE @,
                      !.tool_calls_seen = AddUnseen(@, msg.tool_calls),
                      !.call_results = slots,
                      !.remaining = Len(slots),
                      !.pc = IF Len(slots) > 0 THEN "span" ELSE "drawing"]]

\* A tool message outside a span (lines 403-427).
FoldLoneTool(transcript, frame, msg) ==
    [messages |-> IF LoneToolAppended(transcript, frame, msg)
                  THEN Append(transcript, msg) ELSE transcript,
     frame |-> [frame EXCEPT
                  !.tool_responses_seen =
                      IF frame.is_new /\ ~InSeq(msg, @) THEN Append(@, msg) ELSE @]]

\* A custom message (lines 429-455).
FoldCustom(transcript, frame, msg) ==
    IF ~ValidTaskData(msg.custom_data)
    THEN [messages |-> transcript, frame |-> Ended("halted")]
    ELSE [messages |-> IF CustomAppended(transcript, frame, msg)
                       THEN Append(transcript, msg) ELSE transcript,
          frame |-> [frame EXCEPT !.last_message_type = "task"]]

FinalizeMutReplacesLast(transcript, frame) ==
    [messages |-> IF frame.is_new /\ frame.streaming_content # ""
                  THEN [transcript EXCEPT ![Len(transcript)] =
                           ChatMessage("ai", frame.streaming_content, <<>>, None, None, "")]
                  ELSE transcript,
     frame |-> Ended("returned")]

\* The block after the loop (lines 462-478), then the call returns.
Finalize(transcript, frame) ==
    LET content == frame.streaming_content
        appended == /\ frame.is_new
                    /\ content # ""
                    /\ ~frame.final_message_appended
                    /\ ~StreamedDuplicate(transcript, content)
    IN  [messages |-> IF appended
                      THEN Append(transcript, ChatMessage("ai", content, <<>>, None, None, ""))
                      ELSE transcript,
         frame |-> Ended("returned")]

\* One iteration of the while loop of line 270 on `item`.
FoldItem(transcript, frame, item) ==
    CASE item.kind = "str" ->
            \* an empty token is falsy: the loop ends as if the stream had
            IF item.text = "" THEN Finalize(transcript, frame)
            ELSE FoldToken(transcript, frame, item.text)
      [] item.kind = "object" ->
            [messages |-> transcript, frame |-> Ended("halted")]
      [] item.message.type = "human" ->
            [messages |-> transcript, frame |-> [frame EXCEPT !.last_message_type = "human"]]
      [] item.message.type = "ai" -> FoldAi(transcript, frame, item.message)
      [] item.message.type = "tool" -> FoldLoneTool(transcript, frame, item.message)
      [] item.message.type = "custom" -> FoldCustom(transcript, frame, item.message)
      [] OTHER ->
            [messages |-> transcript, frame |-> Ended("halted")]

\* One iteration of the for loop of line 358 on `item` (lines 360-396).
FoldSpanItem(transcript, frame, item) ==
    IF item.kind # "ChatMessage"
    THEN \* tool_result.type on a str: AttributeError, not caught
         [messages |-> transcript, frame |-> Ended("crashed")]
    ELSE IF item.message.type # "tool"
    THEN [messages |-> transcript, frame |-> Ended("halted")]
    ELSE LET msg == item.message
             slot == SlotOf(frame.call_results, msg.tool_call_id)
         IN  [messages |-> IF SpanToolAppended(transcript, frame, msg)
                           THEN Append(transcript, msg) ELSE transcript,
              frame |-> [frame EXCEPT
                           !.tool_responses_seen =
                               IF InSeq(msg, @) THEN @ ELSE Append(@, msg),
                           !.call_results =
                               [@ EXCEPT ![slot] = [id |-> @.id, state |-> "complete",
                                                    output |-> msg.content]],
                           !.remaining = @ - 1,
                           !.pc = IF frame.remaining = 1 THEN "drawing" ELSE "span"]]

\* The item is folded by whichever loop the call is in.
Fold(transcript, frame, item) ==
    IF frame.pc = "span" THEN FoldSpanItem(transcript, frame, item)
    ELSE FoldItem(transcript, frame, item)

\* The generator is exhausted: in a span StopAsyncIteration is caught (lines
\* 397-401) and the while loop then ends too.
FoldEnd(transcript, frame) == Finalize(transcript, frame)

\* draw_messages run to its end on the items of a finite stream.
RECURSIVE DrawAll(_, _, _)
DrawAll(transcript, frame, items) ==
    IF frame.pc \notin {"drawing", "span"} THEN [messages |-> transcript, frame |-> frame]
    ELSE IF items = <<>> THEN FoldEnd(transcript, frame)
    ELSE LET r == Fold(transcript, frame, Head(items))
         IN  DrawAll(r.messages, r.frame, Tail(items))

---------------------------------------------------------------------------
(* streamlit_app.py main: the session *)

ClientInit ==
    /\ messages = <<>>
    /\ dm = NoDraw
    /\ rd = 0
    /\ last_item = NoItem
    /\ n_items = 0
    /\ n_turns = 0

\* The script is not inside draw_messages on a stream: the previous run returned,
\* was stopped or crashed, and the user can act.
AtPrompt == dm.pc \in {"returned", "halted", "crashed"}

\* Every script run first draws the transcript again (lines 207-213), with is_new
\* False, and only then reaches the chat input (line 220).
Redraw(transcript) ==
    DrawAll(transcript, DrawStart(FALSE),
            [i \in 1..Len(transcript) |-> MessageItem(transcript[i])]).frame

ChatInputReached(transcript) == Redraw(transcript).pc = "returned"

\* The input appended as an entry of the assistant.
HumanEntryMutAi(user_input) == ChatMessage("ai", user_input, <<>>, None, None, "")

\* Line 225: ChatMessage(type="human", content=user_input)
HumanEntry(user_input) == ChatMessage("human", user_input, <<>>, None, None, "")

\* New Chat (lines 69-76, 96-98).
NewChat ==
    /\ AtPrompt
    /\ messages # <<>>
    /\ messages' = <<>>
    /\ dm' = NoDraw
    /\ last_item' = NoItem
    /\ UNCHANGED <<session_vars, request_vars, invoke_vars, lookup_vars, dispatch_vars, stream_vars, env_vars, rd, n_items, n_turns>>

\* The user submits input with "Stream results" on (lines 224-237): the human entry
\* is appended and draw_messages starts on the stream.
SubmitStreamed(user_input) ==
    /\ AtPrompt
    /\ ChatInputReached(messages)
    /\ n_turns < MaxTurns
    /\ messages' = Append(messages, HumanEntry(user_input))
    /\ dm' = DrawStart(TRUE)
    /\ last_item' = NoItem
    /\ n_turns' = n_turns + 1
    /\ UNCHANGED <<session_vars, request_vars, invoke_vars, lookup_vars, dispatch_vars, stream_vars, env_vars, rd, n_items>>

\* The user submits input with "Stream results" off (lines 224-245): the response
\* of ainvoke is appended.
SubmitInvoked(user_input, response_message) ==
    /\ AtPrompt
    /\ ChatInputReached(messages)
    /\ n_turns < MaxTurns
    /\ messages' = Append(Append(messages, HumanEntry(user_input)), response_message)
    /\ dm' = NoDraw
    /\ last_item' = NoItem
    /\ n_turns' = n_turns + 1
    /\ UNCHANGED <<session_vars, request_vars, invoke_vars, lookup_vars, dispatch_vars, stream_vars, env_vars, rd, n_items>>

\* draw_messages takes the next item of the stream.
DrawItem(item) ==
    /\ dm.pc \in {"drawing", "span"}
    /\ n_items < MaxItems
    /\ LET r == Fold(messages, dm, item)
       IN  messages' = r.messages /\ dm' = r.frame
    /\ last_item' = item
    /\ n_items' = n_items + 1
    /\ UNCHANGED <<session_vars, request_vars, invoke_vars, lookup_vars, dispatch_vars, stream_vars, env_vars, rd, n_turns>>

\* The stream raises AgentClientError inside draw_messages: main catches it and
\* stops the script (lines 246-248).
DrawRaises ==
    /\ dm.pc \in {"drawing", "span"}
    /\ dm' = Ended("halted")
    /\ last_item' = NoItem
    /\ UNCHANGED <<session_vars, request_vars, invoke_vars, lookup_vars, dispatch_vars, stream_vars, env_vars, messages, rd, n_items, n_turns>>

\* The stream ends.
DrawEnd ==
    /\ dm.pc \in {"drawing", "span"}
    /\ LET r == FoldEnd(messages, dm)
       IN  messages' = r.messages /\ dm' = r.frame
    /\ last_item' = NoItem
    /\ UNCHANGED <<session_vars, request_vars, invoke_vars, lookup_vars, dispatch_vars, stream_vars, env_vars, rd, n_items, n_turns>>

\* The items a stream may carry.
Items ==
    { StrItem("4"),
      MessageItem(ChatMessage("human", "yes", <<>>, None, "run1", "")),
      MessageItem(ChatMessage("ai", "4", <<>>, None, "run1", "")),
      MessageItem(ChatMessage("ai", "", <<c1>>, None, "run1", "")),
      MessageItem(ChatMessage("ai", "", <<c2>>, None, "run1", "")),
      MessageItem(ChatMessage("ai", "5", <<c1>>, None, "run1", "")),
      MessageItem(ChatMessage("ai", "", <<c1, Call("c1", "calc")>>, None, "run1", "")),
      MessageItem(ChatMessage("ai", "", <<>>, None, "run1", "")),
      MessageItem(ChatMessage("tool", "r1", <<>>, "c1", "run1", "")),
      MessageItem(ChatMessage("tool", "r1", <<>>, "c2", "run1", "")),
      MessageItem(ChatMessage("custom", "", <<>>, None, "run1", "task1")),
      MessageItem(ChatMessage("custom", "", <<>>, None, "run1", "bad")),
      MessageItem(ChatMessage("system", "s", <<>>, None, "run1", "")) }

\* The messages ainvoke may return.
Responses ==
    { ChatMessage("ai", "4", <<>>, None, "run2", ""),
      ChatMessage("ai", "5", <<>>, None, "run2", "") }

FoldNext ==
    \/ NewChat
    \/ \E u \in {"hi"} : SubmitStreamed(u)
    \/ \E u \in {"hi"}, r \in Responses : SubmitInvoked(u, r)
    \/ \E i \in Items : DrawItem(i)
    \/ DrawEnd
    \/ DrawRaises

---------------------------------------------------------------------------
(* A streamed turn end to end *)

\* client.AgentClient.astream (not in src/): what the generator hands to
\* draw_messages for a token or message line of the response.
ParsedItem(unit) ==
    IF unit.type = "token" THEN StrItem(unit.text) ELSE MessageItem(unit.message)

\* An agent execution that completes normally: the events agent.astream produces and
\* the content of the run's final AI message.
Run(events, final) == [events |-> events, final |-> final]
NoRun == Run(<<>>, "")

Chunk(text) == MessagesEvent("AIMessageChunk", "text", text, FALSE)

Runs ==
    { \* a direct answer
      Run(<<Chunk("4"), NodeUpdate("agent", <<HumanMessage("hi"), AIMessage("4", <<>>)>>)>>,
          "4"),
      \* a tool call, its result and the answer, reported in one update of the
      \* agent node (agents/mcp_agent.py, research_assistant.py: one node wrapping
      \* the ReAct agent)
      Run(<<Chunk("5"),
            NodeUpdate("agent", <<HumanMessage("hi"), AIMessage("", <<c1>>),
                                  ToolMessage("r1", "c1"), AIMessage("5", <<>>)>>)>>,
          "5"),
      \* a tool call, the tool reporting progress in a custom event while it runs,
      \* its result and the answer, each step reported by its own node
      Run(<<NodeUpdate("agent", <<AIMessage("", <<c1>>)>>),
            CustomEvent(CustomMessage("task1")),
            NodeUpdate("tools", <<ToolMessage("r1", "c1")>>),
            Chunk("4"),
            NodeUpdate("agent", <<AIMessage("4", <<>>)>>)>>,
          "4"),
      \* two tool calls; the result of the first, then the output of a sub-agent
      \* step, which message_generator re-tags as a tool message with a temporary id
      Run(<<NodeUpdate("agent", <<AIMessage("", <<c1, c2>>)>>),
            NodeUpdate("tools", <<ToolMessage("r1", "c1")>>),
            NodeUpdate("research_expert", <<AIMessage("r2", <<>>)>>),
            NodeUpdate("agent", <<AIMessage("4", <<>>)>>)>>,
          "4") }

\* The client is not reading the response, or has read all of it so far.
ClientCaughtUp == dm.pc \notin {"drawing", "span"} \/ rd = Len(out)

\* The user submits input with "Stream results" on and the service starts
\* message_generator on the request (streamlit_app.py 223-237, service.py 213-218).
TurnStreamed(run, stream_tokens) ==
    /\ AtPrompt
    /\ ChatInputReached(messages)
    /\ sv_pc \in {"idle", "done"}
    /\ n_streams < MaxStreams
    /\ messages' = Append(messages, HumanEntry("hi"))
    /\ dm' = DrawStart(TRUE)
    /\ rd' = 0
    /\ last_item' = NoItem
    /\ n_turns' = n_turns + 1
    /\ sv_pc' = "streaming"
    /\ sv_input' = [message |-> "hi", stream_tokens |-> stream_tokens]
    /\ sv_run' = RunId(n_streams + 1)
    /\ final_ai_message_sent' = FALSE
    /\ is_last_update' = FALSE
    /\ out' = <<>>
    /\ n_events' = 0
    /\ n_streams' = n_streams + 1
    /\ agent_run' = run
    /\ UNCHANGED <<session_vars, request_vars, invoke_vars, lookup_vars, dispatch_vars, next_uuid, n_items>>

\* The run produces its next event and the loop body of message_generator runs.
ServeEvent ==
    /\ sv_pc = "streaming"
    /\ agent_run.events # <<>>
    /\ ClientCaughtUp
    /\ ~EventRaises(Head(agent_run.events))
    /\ LET t == Translate(Head(agent_run.events), sv_input, sv_run,
                          final_ai_message_sent, is_last_update, next_uuid)
       IN  /\ out' = out \o t.units
           /\ final_ai_message_sent' = t.sent
           /\ is_last_update' = t.last
           /\ next_uuid' = t.uuid
    /\ n_events' = n_events + 1
    /\ agent_run' = [agent_run EXCEPT !.events = Tail(@)]
    /\ UNCHANGED <<session_vars, request_vars, invoke_vars, lookup_vars, dispatch_vars, client_vars, sv_pc, sv_input, sv_run, n_streams>>

\* The run is over: line 317.
ServeDone ==
    /\ sv_pc = "streaming"
    /\ agent_run.events = <<>>
    /\ ClientCaughtUp
    /\ sv_pc' = "done"
    /\ out' = CloseStream(out)
    /\ UNCHANGED <<session_vars, request_vars, invoke_vars, lookup_vars, dispatch_vars, client_vars, env_vars, sv_input, sv_run,
                   final_ai_message_sent, is_last_update, n_events, n_streams, next_uuid>>

\* draw_messages takes the next unit of the response: an error line makes the
\* generator raise, [DONE] ends it.
Receive ==
    /\ dm.pc \in {"drawing", "span"}
    /\ rd < Len(out)
    /\ LET unit == out[rd + 1]
           r == CASE unit.type = "DONE" -> FoldEnd(messages, dm)
                  [] unit.type = "error" -> [messages |-> messages, frame |-> Ended("halted")]
                  [] OTHER -> Fold(messages, dm, ParsedItem(unit))
       IN  /\ messages' = r.messages
           /\ dm' = r.frame
           /\ last_item' = IF unit.type \in {"DONE", "error"} THEN NoItem
                           ELSE ParsedItem(unit)
    /\ rd' = rd + 1
    /\ UNCHANGED <<session_vars, request_vars, invoke_vars, lookup_vars, dispatch_vars, stream_vars, env_vars, n_items, n_turns>>

TurnsNext ==
    \/ \E run \in Runs, stream_tokens \in BOOLEAN : TurnStreamed(run, stream_tokens)
    \/ ServeEvent
    \/ ServeDone
    \/ Receive
    \/ NewChat

----------------------------------------------------------------------------
(* Agent construction under concurrent requests.  One event loop runs the   *)
(* coroutines; a coroutine gives way to another only at an await that       *)
(* really suspends.  The only such await on the way to an agent instance is *)
(* `await _mcp_client.__aenter__()` in get_tools.                           *)

LifespanTask == 0
RequestTasks == 1..MaxRequests
LookupTasks == {LifespanTask} \cup RequestTasks

NoInstance == 0

\* get_all_agent_info lists the registry in the order of the AGENTS dict.
get_all_agent_info == <<"research-assistant", "mcp-agent">>

Frame(pc, agent_id, model_name, got, step) ==
    [pc |-> pc, agent_id |-> agent_id, model_name |-> model_name, got |-> got,
     step |-> step]

\* cache_key = f"{agent_id}:{model_name}"
cache_key(agent_id, model_name) == agent_id \o ":" \o model_name

\* The configuration an instance was built for: the cache key of a model-specific
\* instance, the agent id of a registered default instance.
InstanceKey(agent_id, model_name) ==
    IF UsesCache(agent_id, model_name) THEN cache_key(agent_id, model_name)
    ELSE agent_id

\* The module whose get_tools and _mcp_client the construction uses: service.py
\* imports initialize_agent from agents.mcp_agent; a getter uses its own module.
ModuleOf(agent_id, model_name) ==
    IF UsesCache(agent_id, model_name) THEN "mcp-agent" ELSE agent_id

\* get_agent_with_model / the getter: `cache_key not in _agent_cache`, `_agent is None`
Stored(agent_id, model_name) ==
    IF UsesCache(agent_id, model_name) THEN instance_cache[model_name]
    ELSE module_agent[agent_id]

\* get_tools: `if _mcp_client is None` -- the client is created and entered, which
\* suspends the caller; otherwise get_tools returns without suspending.
MustEnterMutUntilReady(module) == mcp_client[module] # "ready"

MustEnter(module) == mcp_client[module] = None

\* May task t start this lookup now?  Lifespan calls get_agent for the registered
\* agents in turn, before the app serves; a request's handler starts with
\* `await get_agent_with_model(...)` and requests are served after startup.
MayCall(t, agent_id, model_name) ==
    IF t = LifespanTask
    THEN /\ ~started
         /\ task[t].pc = "idle"
         /\ task[t].step <= Len(get_all_agent_info)
         /\ agent_id = get_all_agent_info[task[t].step]
         /\ model_name = None
    ELSE /\ started
         /\ task[t].pc \in {"idle", "returned", "raised"}

\* initialize_agent returns a new compiled graph and the caller stores it:
\*   agent = await initialize_agent(model_name); if _saver: agent.checkpointer = _saver;
\*   _agent_cache[cache_key] = agent; return _agent_cache[cache_key]
\* or, in a getter,
\*   _agent = await initialize_agent(); _agent.checkpointer = MemorySaver(); return _agent
Construct(t, agent_id, model_name) ==
    LET id == Len(instances) + 1
        cached == UsesCache(agent_id, model_name)
        cp == IF cached THEN NewInstanceCheckpointer ELSE "MemorySaver:" \o agent_id
    IN  /\ instances' = Append(instances, [key |-> InstanceKey(agent_id, model_name),
                                           checkpointer |-> cp])
        /\ instance_cache' = IF cached THEN [instance_cache EXCEPT ![model_name] = id]
                             ELSE instance_cache
        /\ agent_cache' = IF cached THEN [agent_cache EXCEPT ![model_name] = cp]
                          ELSE agent_cache
        /\ module_agent' = IF cached THEN module_agent
                           ELSE [module_agent EXCEPT ![agent_id] = id]
        /\ registry_cp' = IF cached THEN registry_cp
                          ELSE [registry_cp EXCEPT ![agent_id] = cp]
        /\ task' = [task EXCEPT ![t] = Frame("returned", agent_id, model_name, id,
                                             task[t].step)]

LookupInit ==
    /\ mcp_client = [a \in AGENTS |-> None]
    /\ instances = <<>>
    /\ module_agent = [a \in AGENTS |-> NoInstance]
    /\ instance_cache = [m \in Models |-> NoInstance]
    /\ task = [t \in LookupTasks |-> Frame("idle", None, None, NoInstance,
                                           IF t = LifespanTask THEN 1 ELSE 0)]

\* get_agent raises ValueError: the agent id is not registered.
LookupUnknown(t, agent_id, model_name) ==
    /\ MayCall(t, agent_id, model_name)
    /\ ~UsesCache(agent_id, model_name)
    /\ ~get_agent_found(agent_id)
    /\ task' = [task EXCEPT ![t] = Frame("raised", agent_id, model_name, NoInstance,
                                         task[t].step)]
    /\ UNCHANGED <<session_vars, request_vars, invoke_vars, dispatch_vars, stream_vars, client_vars, env_vars,
                   mcp_client, instances, module_agent, instance_cache>>

\* The instance is there: it is returned without any await.
LookupHit(t, agent_id, model_name) ==
    /\ MayCall(t, agent_id, model_name)
    /\ UsesCache(agent_id, model_name) \/ get_agent_found(agent_id)
    /\ Stored(agent_id, model_name) # NoInstance
    /\ task' = [task EXCEPT ![t] = Frame("returned", agent_id, model_name,
                                         Stored(agent_id, model_name), task[t].step)]
    /\ UNCHANGED <<session_vars, request_vars, invoke_vars, dispatch_vars, stream_vars, client_vars, env_vars,
                   mcp_client, instances, module_agent, instance_cache>>

\* The instance is missing and the module's client exists: initialize_agent runs to
\* its end without suspending, and the instance is stored and returned.
LookupBuilds(t, agent_id, model_name) ==
    /\ MayCall(t, agent_id, model_name)
    /\ UsesCache(agent_id, model_name) \/ get_agent_found(agent_id)
    /\ Stored(agent_id, model_name) = NoInstance
    /\ ~MustEnter(ModuleOf(agent_id, model_name))
    /\ Construct(t, agent_id, model_name)
    /\ UNCHANGED <<session_vars, request_vars, invoke_vars, stream_vars, client_vars, env_vars, started, saver, store, turn,
                   awaiting, resume_due, mcp_client>>

\* The instance is missing and the module has no client yet: get_tools creates it
\* and the caller is suspended in __aenter__.
LookupSuspends(t, agent_id, model_name) ==
    /\ MayCall(t, agent_id, model_name)
    /\ UsesCache(agent_id, model_name) \/ get_agent_found(agent_id)
    /\ Stored(agent_id, model_name) = NoInstance
    /\ MustEnter(ModuleOf(agent_id, model_name))
    /\ mcp_client' = [mcp_client EXCEPT ![ModuleOf(agent_id, model_name)] = "entering"]
    /\ task' = [task EXCEPT ![t] = Frame("aenter", agent_id, model_name, NoInstance,
                                         task[t].step)]
    /\ UNCHANGED <<session_vars, request_vars, invoke_vars, dispatch_vars, stream_vars, client_vars, env_vars,
                   instances, module_agent, instance_cache>>

\* __aenter__ returns: the caller goes on to the end of initialize_agent and stores
\* what it built, whatever has been stored meanwhile.
AenterReturns(t) ==
    /\ task[t].pc = "aenter"
    /\ mcp_client' = [mcp_client EXCEPT
                        ![ModuleOf(task[t].agent_id, task[t].model_name)] = "ready"]
    /\ Construct(t, task[t].agent_id, task[t].model_name)
    /\ UNCHANGED <<session_vars, request_vars, invoke_vars, stream_vars, client_vars, env_vars, started, saver, store, turn,
                   awaiting, resume_due>>

\* __aenter__ raises.  agents/mcp_agent.py catches it, get_tools returns [] and the
\* agent is built without tools; agents/research_assistant.py has no handler and
\* the exception leaves the getter.
AenterRaises(t) ==
    /\ task[t].pc = "aenter"
    /\ mcp_client' = [mcp_client EXCEPT
                        ![ModuleOf(task[t].agent_id, task[t].model_name)] = "failed"]
    /\ IF ModuleOf(task[t].agent_id, task[t].model_name) = "mcp-agent"
       THEN Construct(t, task[t].agent_id, task[t].model_name)
       ELSE /\ task' = [task EXCEPT ![t].pc = "raised"]
            /\ UNCHANGED <<session_vars, request_vars, invoke_vars, instances, module_agent, instance_cache, agent_cache,
                           registry_cp>>
    /\ UNCHANGED <<session_vars, request_vars, invoke_vars, stream_vars, client_vars, env_vars, started, saver, store, turn,
                   awaiting, resume_due>>

\* lifespan, after `agent = await get_agent(a.key)`: agent.checkpointer = saver
LifespanAssigns ==
    /\ ~started
    /\ task[LifespanTask].pc = "returned"
    /\ instances' = [instances EXCEPT ![task[LifespanTask].got].checkpointer = "saver"]
    /\ registry_cp' = [registry_cp EXCEPT ![task[LifespanTask].agent_id] = "saver"]
    /\ task' = [task EXCEPT ![LifespanTask] =
                    Frame("idle", None, None, NoInstance, task[LifespanTask].step + 1)]
    /\ UNCHANGED <<session_vars, request_vars, invoke_vars, stream_vars, client_vars, env_vars, started, saver, agent_cache,
                   store, turn, awaiting, resume_due, mcp_client, module_agent,
                   instance_cache>>

\* lifespan, after the loop: _saver = saver; yield -- the app starts to serve.
LifespanYields ==
    /\ ~started
    /\ task[LifespanTask].pc = "idle"
    /\ task[LifespanTask].step > Len(get_all_agent_info)
    /\ saver' = "saver"
    /\ started' = TRUE
    /\ task' = [task EXCEPT ![LifespanTask].pc = "serving"]
    /\ UNCHANGED <<session_vars, request_vars, invoke_vars, stream_vars, client_vars, env_vars, registry_cp, agent_cache,
                   store, turn, awaiting, resume_due, mcp_client, instances,
                   module_agent, instance_cache>>

LookupNext ==
    \/ \E t \in LookupTasks, agent_id \in AgentIds, model_name \in ModelArgs :
          \/ LookupUnknown(t, agent_id, model_name)
          \/ LookupHit(t, agent_id, model_name)
          \/ LookupBuilds(t, agent_id, model_name)
          \/ LookupSuspends(t, agent_id, model_name)
    \/ \E t \in LookupTasks :
          \/ AenterReturns(t)
          \/ AenterRaises(t)
    \/ LifespanAssigns
    \/ LifespanYields

---------------------------------------------------------------------------
(* Requests served side by side: verify_bearer, then the handler *)

\* settings.AUTH_SECRET: unset, set to the empty string, set to a secret.
AuthSecrets == {None, "", "s3cret"}

\* The Authorization header of a request.
Header(scheme, credentials) == [scheme |-> scheme, credentials |-> credentials]
NoHeader == Header("", "")
Headers ==
    { NoHeader, Header("Bearer", "s3cret"), Header("Bearer", "wrong"),
      Header("Basic", "s3cret") }

\* HTTPBearer(auto_error=False): the credentials of a bearer header, None for a
\* missing header, another scheme or empty credentials.
HTTPBearer(authorization) ==
    IF authorization.scheme = "Bearer" /\ authorization.credentials # ""
    THEN authorization.credentials
    ELSE None

\* verify_bearer admitting whoever sends bearer credentials.
verify_bearerMutAnyBearer(http_auth) ==
    IF Falsy(auth_secret) THEN 0
    ELSE IF http_auth = None THEN 401
    ELSE 0

\* verify_bearer (lines 77-87): the status it raises, 0 when it returns.
verify_bearer(http_auth) ==
    IF Falsy(auth_secret) THEN 0
    ELSE IF http_auth = None \/ http_auth # auth_secret THEN 401
    ELSE 0

Connections == {"conn1", "conn2"}
RouterEndpoints == {"info", "invoke", "stream"}

NoFrame ==
    [pc |-> "idle", status |-> 0, endpoint |-> "none", thread_id |-> None,
     run_id |-> None, units |-> <<>>, message |-> NoMessage]

RequestsInit ==
    /\ auth_secret = "unloaded"
    /\ frames = [r \in Connections |-> NoFrame]
    /\ n_runs = 0

\* The service process starts: core.settings reads its environment.
LoadSettings(secret) ==
    /\ auth_secret = "unloaded"
    /\ auth_secret' = secret
    /\ UNCHANGED <<frames, n_runs, dispatch_vars, stream_vars, client_vars, env_vars,
                   lookup_vars, invoke_vars, session_vars>>

\* The connection can carry a new request.
Free(r) == auth_secret # "unloaded" /\ frames[r].pc \in {"idle", "returned"}

\* The router's dependency raises: the request is answered 401 and the endpoint
\* handler is not called.
Unauthorized(r, authorization, endpoint) ==
    /\ Free(r)
    /\ verify_bearer(HTTPBearer(authorization)) = 401
    /\ frames' = [frames EXCEPT ![r] =
                    [NoFrame EXCEPT !.pc = "returned", !.status = 401,
                                    !.endpoint = endpoint]]
    /\ UNCHANGED <<auth_secret, n_runs, dispatch_vars, stream_vars, client_vars,
                   env_vars, lookup_vars, invoke_vars, session_vars>>

\* GET /info (lines 114-123).
Info(r, authorization) ==
    /\ Free(r)
    /\ verify_bearer(HTTPBearer(authorization)) # 401
    /\ frames' = [frames EXCEPT ![r] =
                    [NoFrame EXCEPT !.pc = "returned", !.status = 200,
                                    !.endpoint = "info"]]
    /\ UNCHANGED <<auth_secret, n_runs, dispatch_vars, stream_vars, client_vars,
                   env_vars, lookup_vars, invoke_vars, session_vars>>

\* /invoke or /stream is admitted and _handle_input draws the run_id of the turn
\* (line 133); the response of /stream has begun.
HandleInput(r, authorization, endpoint, thread_id) ==
    /\ Free(r)
    /\ verify_bearer(HTTPBearer(authorization)) # 401
    /\ endpoint \in {"invoke", "stream"}
    /\ n_runs < MaxRuns
    /\ n_runs' = n_runs + 1
    /\ frames' = [frames EXCEPT ![r] =
                    [NoFrame EXCEPT !.pc = "running",
                                    !.status = IF endpoint = "stream" THEN 200 ELSE 0,
                                    !.endpoint = endpoint,
                                    !.thread_id = thread_id,
                                    !.run_id = RunId(n_runs + 1)]]
    /\ UNCHANGED <<auth_secret, dispatch_vars, stream_vars, client_vars, env_vars,
                   lookup_vars, invoke_vars, session_vars>>

\* run_id kept in one variable of the module, which the latest turn overwrites.
RunIdOfMutShared(r) == RunId(n_runs)

\* run_id in the frame of the handler: the local variable _handle_input's result
\* is bound to (lines 182, 214).
RunIdOf(r) == frames[r].run_id

\* The messages a state update carries to message_generator here.
RunMessages == {AIMessage("4", <<>>), SystemMessage("s")}

\* message_generator on the connection translates a message of its run (lines
\* 265-298).
YieldUnits(r, message) ==
    /\ frames[r].pc = "running"
    /\ frames[r].endpoint = "stream"
    /\ Len(frames[r].units) < MaxUnits
    /\ frames' = [frames EXCEPT ![r].units =
                    YieldMessage([units |-> @, sent |-> FALSE, uuid |-> 1], message,
                                 [message |-> "hi", stream_tokens |-> FALSE],
                                 RunIdOf(r), FALSE).units]
    /\ UNCHANGED <<auth_secret, n_runs, dispatch_vars, stream_vars, client_vars,
                   env_vars, lookup_vars, invoke_vars, session_vars>>

\* The event source of the connection's stream is exhausted (line 317).
StreamEnds(r) ==
    /\ frames[r].pc = "running"
    /\ frames[r].endpoint = "stream"
    /\ frames' = [frames EXCEPT ![r].pc = "returned",
                                ![r].units = CloseStream(@)]
    /\ UNCHANGED <<auth_secret, n_runs, dispatch_vars, stream_vars, client_vars,
                   env_vars, lookup_vars, invoke_vars, session_vars>>

\* agent.ainvoke returns on the connection and invoke builds its answer (lines
\* 184-199).
InvokeReturns(r, response_events) ==
    /\ frames[r].pc = "running"
    /\ frames[r].endpoint = "invoke"
    /\ LET response == invoke_output(response_events, RunIdOf(r))
       IN  frames' = [frames EXCEPT ![r].pc = "returned",
                                    ![r].status = response.status,
                                    ![r].message = response.message]
    /\ UNCHANGED <<auth_secret, n_runs, dispatch_vars, stream_vars, client_vars,
                   env_vars, lookup_vars, invoke_vars, session_vars>>

RequestsNext ==
    \/ \E secret \in AuthSecrets : LoadSettings(secret)
    \/ \E r \in Connections, h \in Headers, e \in RouterEndpoints : Unauthorized(r, h, e)
    \/ \E r \in Connections, h \in Headers : Info(r, h)
    \/ \E r \in Connections, h \in Headers, e \in RouterEndpoints, t \in Threads :
          HandleInput(r, h, e, t)
    \/ \E r \in Connections, m \in RunMessages : YieldUnits(r, m)
    \/ \E r \in Connections : StreamEnds(r)
    \/ \E r \in Connections : InvokeReturns(r, <<ValuesEvent(<<AIMessage("4", <<>>)>>)>>)
---------------------------------------------------------------------------
(* One UI session turn by turn: thread_id, New Chat, handle_feedback *)

\* get_script_run_ctx().session_id, the thread of a session opened without a
\* thread_id in its URL (lines 78-81).
SessionId == "session-id"

\* str(uuid.uuid4()) of line 71.
NewThreadId(n) == "thread" \o ToString(n)

NoStars == [key |-> None, value |-> None]

SessionInit ==
    /\ ss_thread_id = SessionId
    /\ start_new_chat = FALSE
    /\ n_chats = 0
    /\ turns_sent = <<>>
    /\ last_feedback = <<None, None>>
    /\ stars = NoStars
    /\ attempts = 0
    /\ recorded = 0
    /\ n_reruns = 0

\* The New Chat button (lines 96-98): the flag is set and the script is rerun.
PressNewChat ==
    /\ ~start_new_chat
    /\ n_chats < MaxChats
    /\ start_new_chat' = TRUE
    /\ UNCHANGED <<ss_thread_id, n_chats, turns_sent, last_feedback, stars, attempts, recorded,
                   n_reruns, client_vars, request_vars, dispatch_vars, stream_vars,
                   env_vars, lookup_vars, invoke_vars>>

\* The script run that finds the flag, keeping the thread of the chat before.
StartNewChatMutKeepsThread ==
    /\ start_new_chat
    /\ messages' = <<>>
    /\ ss_thread_id' = ss_thread_id
    /\ start_new_chat' = FALSE
    /\ n_chats' = n_chats + 1
    /\ UNCHANGED <<turns_sent, last_feedback, stars, attempts, recorded, n_reruns, dm, rd,
                   last_item, n_items, n_turns, request_vars, dispatch_vars,
                   stream_vars, env_vars, lookup_vars, invoke_vars>>

\* The script run that finds the flag (lines 69-76).
StartNewChat ==
    /\ start_new_chat
    /\ messages' = <<>>
    /\ ss_thread_id' = NewThreadId(n_chats + 1)
    /\ start_new_chat' = FALSE
    /\ n_chats' = n_chats + 1
    /\ UNCHANGED <<turns_sent, last_feedback, stars, attempts, recorded, n_reruns, dm, rd,
                   last_item, n_items, n_turns, request_vars, dispatch_vars,
                   stream_vars, env_vars, lookup_vars, invoke_vars>>

\* What the service streams for a turn here: the tokens of the answer and the
\* answer as a message, the answer as a message only, tokens only.
TurnStreams(run_id) ==
    { <<StrItem("4"), MessageItem(ChatMessage("ai", "4", <<>>, None, run_id, ""))>>,
      <<MessageItem(ChatMessage("ai", "4", <<>>, None, run_id, ""))>>,
      <<StrItem("4")>> }

\* The record of a turn sent with the session's thread_id (lines 232-243).
SentTurn == [chat |-> n_chats, thread_id |-> ss_thread_id]

\* A turn with "Stream results" on, from the input to st.rerun (lines 224-237,
\* 246): the human entry, then draw_messages on the whole stream.
SendStreamed(items) ==
    /\ ~start_new_chat
    /\ ChatInputReached(messages)
    /\ Len(turns_sent) < MaxSent
    /\ items \in TurnStreams(RunId(Len(turns_sent) + 1))
    /\ messages' = DrawAll(Append(messages, HumanEntry("hi")), DrawStart(TRUE),
                           items).messages
    /\ turns_sent' = Append(turns_sent, SentTurn)
    /\ UNCHANGED <<ss_thread_id, start_new_chat, n_chats, last_feedback, stars, attempts,
                   recorded, n_reruns, dm, rd, last_item, n_items, n_turns,
                   request_vars, dispatch_vars, stream_vars, env_vars, lookup_vars,
                   invoke_vars>>

\* A turn with "Stream results" off (lines 238-246): the human entry, then the
\* message ainvoke returned, which carries the run_id of the turn.
SendInvoked ==
    /\ ~start_new_chat
    /\ ChatInputReached(messages)
    /\ Len(turns_sent) < MaxSent
    /\ messages' = messages \o
          <<HumanEntry("hi"),
            ChatMessage("ai", "5", <<>>, None, RunId(Len(turns_sent) + 1), "")>>
    /\ turns_sent' = Append(turns_sent, SentTurn)
    /\ UNCHANGED <<ss_thread_id, start_new_chat, n_chats, last_feedback, stars, attempts,
                   recorded, n_reruns, dm, rd, last_item, n_items, n_turns,
                   request_vars, dispatch_vars, stream_vars, env_vars, lookup_vars,
                   invoke_vars>>

\* st.session_state.last_message after the transcript was drawn again: reset at
\* line 261, set by the container of an ai entry (line 322) or of a task entry
\* (line 450).
LastMessageSet(transcript) ==
    \E i \in 1..Len(transcript) : transcript[i].type \in {"ai", "custom"}

\* The stars the user may select.
Scores == {"2", "4"}

\* The test of line 486 without the comparison with last_feedback.
FeedbackDueMutAlways(latest_run_id, feedback, last) == feedback # None

\* Line 486.
FeedbackDue(latest_run_id, feedback, last) ==
    feedback # None /\ <<latest_run_id, feedback>> # last

\* A script run without input that reaches the feedback widget (lines 251-254,
\* 481-500). click is the score the user has just selected, None for a run made
\* for another reason; ok tells whether acreate_feedback succeeds if it is called.
HandleFeedback(click, ok) ==
    /\ ~start_new_chat
    /\ ChatInputReached(messages)
    /\ Len(messages) > 0
    /\ LastMessageSet(messages)
    /\ n_reruns < MaxReruns
    /\ n_reruns' = n_reruns + 1
    /\ LET latest_run_id == messages[Len(messages)].run_id
           feedback == IF click # None THEN click
                       ELSE IF stars.key = latest_run_id THEN stars.value
                       ELSE None
           selection == [key |-> latest_run_id, value |-> feedback]
           due == FeedbackDue(latest_run_id, feedback, last_feedback)
       IN  /\ stars' = selection
           /\ attempts' = (IF selection = stars THEN attempts ELSE 0)
                             + (IF due THEN 1 ELSE 0)
           /\ recorded' = (IF selection = stars THEN recorded ELSE 0)
                             + (IF due /\ ok THEN 1 ELSE 0)
           /\ last_feedback' = IF due /\ ok THEN <<latest_run_id, feedback>>
                               ELSE last_feedback
    /\ UNCHANGED <<ss_thread_id, start_new_chat, n_chats, turns_sent, client_vars, request_vars,
                   dispatch_vars, stream_vars, env_vars, lookup_vars, invoke_vars>>

SessionNext ==
    \/ \E items \in TurnStreams(RunId(Len(turns_sent) + 1)) : SendStreamed(items)
    \/ SendInvoked
    \/ \E click \in Scores \cup {None}, ok \in BOOLEAN : HandleFeedback(click, ok)
    \/ PressNewChat
    \/ StartNewChat
---------------------------------------------------------------------------
(* Startup *)

DispatchInit ==
    /\ started = FALSE
    /\ saver = None
    /\ registry_cp = [a \in AGENTS |-> "unbuilt"]
    /\ agent_cache = [m \in Models |-> "absent"]
    /\ store = [c \in Checkpointers |-> [t \in Threads |-> <<>>]]
    /\ turn = NoTurn
    /\ awaiting = [t \in Threads |-> FALSE]
    /\ resume_due = [t \in Threads |-> FALSE]

StreamInit ==
    /\ sv_pc = "idle"
    /\ sv_input = [message |-> "hi", stream_tokens |-> FALSE]
    /\ sv_run = None
    /\ final_ai_message_sent = FALSE
    /\ is_last_update = FALSE
    /\ out = <<>>
    /\ n_events = 0
    /\ n_streams = 0
    /\ next_uuid = 1

Init ==
    /\ DispatchInit
    /\ StreamInit
    /\ ClientInit
    /\ LookupInit
    /\ invoke_response = NoResponse
    /\ agent_run = NoRun
    /\ RequestsInit
    /\ SessionInit

\* lifespan without `agent.checkpointer = saver`: the registered agents keep the
\* MemorySaver their getter gave them.
LifespanMutNoAssign ==
    /\ ~started
    /\ started' = TRUE
    /\ registry_cp' = [a \in AGENTS |-> "MemorySaver:" \o a]
    /\ saver' = "saver"
    /\ UNCHANGED <<session_vars, request_vars, invoke_vars, lookup_vars, stream_vars, client_vars, env_vars, agent_cache, store, turn, awaiting, resume_due>>

\* lifespan: every registered agent is built and given the saver, then _saver is set.
Lifespan ==
    /\ ~started
    /\ started' = TRUE
    /\ registry_cp' = [a \in AGENTS |-> "saver"]
    /\ saver' = "saver"
    /\ UNCHANGED <<session_vars, request_vars, invoke_vars, lookup_vars, stream_vars, client_vars, env_vars, agent_cache, store, turn, awaiting, resume_due>>

---------------------------------------------------------------------------
(* A request to /invoke or /stream: get_agent_with_model, then _handle_input *)

\* No request is being served (the previous one was answered).
Idle == turn.kind \in {"none", "rejected"}

\* The request names an unknown agent: get_agent raises ValueError.
SubmitUnknownAgent(endpoint, agent_id, model_name, thread_id) ==
    /\ started
    /\ Idle
    /\ ~UsesCache(agent_id, model_name)
    /\ ~get_agent_found(agent_id)
    /\ turn' = [kind |-> "rejected", endpoint |-> endpoint, thread_id |-> thread_id,
                error |-> "ValueError"]
    /\ UNCHANGED <<session_vars, request_vars, invoke_vars, lookup_vars, stream_vars, client_vars, env_vars, started, saver, registry_cp, agent_cache, store, awaiting, resume_due>>

\* agent_config collides with a reserved key: HTTPException(422), after the agent
\* lookup (and its cache insertion) and before the state is read.
SubmitReservedKey(endpoint, agent_id, model_name, thread_id, agent_config) ==
    /\ started
    /\ Idle
    /\ UsesCache(agent_id, model_name) \/ get_agent_found(agent_id)
    /\ ReservedOverlap(agent_config) # {}
    /\ agent_cache' = CacheAfterLookup(agent_id, model_name)
    /\ turn' = [kind |-> "rejected", endpoint |-> endpoint, thread_id |-> thread_id,
                error |-> "422", model |-> model_name, agent_config |-> agent_config]
    /\ UNCHANGED <<session_vars, request_vars, invoke_vars, lookup_vars, stream_vars, client_vars, env_vars, started, saver, registry_cp, store, awaiting, resume_due>>

\* The turn is dispatched: the state of the thread is read through the instance's
\* checkpointer and the input is a resume or a fresh human message.
SubmitTurn(endpoint, agent_id, model_name, thread_id, message, agent_config) ==
    /\ started
    /\ Idle
    /\ UsesCache(agent_id, model_name) \/ get_agent_found(agent_id)
    /\ ReservedOverlap(agent_config) = {}
    /\ LET cp == InstanceCheckpointer(agent_id, model_name)
           tasks == store[cp][thread_id]
       IN  /\ cp \in Checkpointers
           /\ turn' = [kind |-> "turn", endpoint |-> endpoint, thread_id |-> thread_id,
                       instance |-> IF UsesCache(agent_id, model_name)
                                    THEN <<agent_id, model_name>>
                                    ELSE <<agent_id, None>>,
                       checkpointer |-> cp,
                       input |-> TurnInput(tasks, message),
                       model |-> model_name, agent_config |-> agent_config,
                       configurable |-> Configurable(thread_id, model_name, agent_config)]
    /\ agent_cache' = CacheAfterLookup(agent_id, model_name)
    /\ UNCHANGED <<session_vars, request_vars, invoke_vars, lookup_vars, stream_vars, client_vars, env_vars, started, saver, registry_cp, store, awaiting, resume_due>>

---------------------------------------------------------------------------
(* The opaque agent execution (agent.ainvoke / agent.astream) ends *)

Running == turn.kind = "turn"

\* The execution runs to the end of the graph: no task is left in the state.
TurnCompletes ==
    /\ Running
    /\ store' = [store EXCEPT ![turn.checkpointer][turn.thread_id] = <<>>]
    /\ turn' = NoTurn
    /\ awaiting' = [awaiting EXCEPT ![turn.thread_id] = FALSE]
    /\ resume_due' = [resume_due EXCEPT ![turn.thread_id] = FALSE]
    /\ UNCHANGED <<session_vars, request_vars, invoke_vars, lookup_vars, stream_vars, client_vars, env_vars, started, saver, registry_cp, agent_cache>>

\* The execution is suspended by an interrupt: the state keeps the interrupted
\* task(s), beside possibly others.
TurnInterrupts(tasks) ==
    /\ Running
    /\ \E i \in 1..Len(tasks) : tasks[i].interrupts # <<>>
    /\ store' = [store EXCEPT ![turn.checkpointer][turn.thread_id] = tasks]
    /\ turn' = NoTurn
    /\ awaiting' = [awaiting EXCEPT ![turn.thread_id] = TRUE]
    /\ resume_due' = [resume_due EXCEPT ![turn.thread_id] = TRUE]
    /\ UNCHANGED <<session_vars, request_vars, invoke_vars, lookup_vars, stream_vars, client_vars, env_vars, started, saver, registry_cp, agent_cache>>

\* The execution raises before the checkpoint has moved: the state is as it was.
TurnRaisesEarly ==
    /\ Running
    /\ turn' = NoTurn
    /\ UNCHANGED <<session_vars, request_vars, invoke_vars, lookup_vars, stream_vars, client_vars, env_vars, started, saver, registry_cp, agent_cache, store, awaiting, resume_due>>

\* The execution raises in a later step: the checkpoint has moved on, the failed
\* task is the one left and it has no interrupt.
TurnRaisesLate ==
    /\ Running
    /\ store' = [store EXCEPT ![turn.checkpointer][turn.thread_id] =
                    <<[has_attr |-> TRUE, interrupts |-> <<>>]>>]
    /\ turn' = NoTurn
    /\ resume_due' = [resume_due EXCEPT ![turn.thread_id] = FALSE]
    /\ UNCHANGED <<session_vars, request_vars, invoke_vars, lookup_vars, stream_vars, client_vars, env_vars, started, saver, registry_cp, agent_cache, awaiting>>

Next ==
    \/ Lifespan
    \/ \E e \in Endpoints, a \in AgentIds, m \in ModelArgs, t \in Threads :
          SubmitUnknownAgent(e, a, m, t)
    \/ \E e \in Endpoints, a \in AgentIds, m \in ModelArgs, t \in Threads,
          c \in AgentConfigs : SubmitReservedKey(e, a, m, t, c)
    \/ \E e \in Endpoints, a \in AgentIds, m \in ModelArgs, t \in Threads,
          u \in UserMessages, c \in AgentConfigs : SubmitTurn(e, a, m, t, u, c)
    \/ TurnCompletes
    \/ \E ts \in TaskLists : TurnInterrupts(ts)
    \/ TurnRaisesEarly
    \/ TurnRaisesLate

Spec == Init /\ [][Next]_vars

SpecStream == Init /\ [][StreamNext]_vars

SpecFold == Init /\ [][FoldNext]_vars

SpecTurns == Init /\ [][TurnsNext]_vars

SpecLookup == Init /\ [][LookupNext]_vars

SpecInterrupts == Init /\ [][InterruptNext]_vars
SpecRequests == Init /\ [][RequestsNext]_vars
SpecSession == Init /\ [][SessionNext]_vars

---------------------------------------------------------------------------
(* Claims about turn dispatch *)

\* A step that dispatches a turn to an agent.
Dispatches == Idle /\ turn'.kind = "turn"

\* Some task of the thread's checkpointed state has a non-empty interrupts list.
HasPendingInterrupt(thread_id) ==
    \E i \in 1..Len(store["saver"][thread_id]) :
        store["saver"][thread_id][i].interrupts # <<>>

\* C1: whenever the checkpointed state of the requested thread has a task with a
\* non-empty interrupts list, the input handed to the agent is
\* Command(resume=<user message>); a plain {messages: [HumanMessage]} input is
\* dispatched only when no task of the thread has a pending interrupt; on both
\* endpoints.
C1_ResumeIffPendingInterrupt ==
    [][Dispatches =>
          /\ turn'.endpoint \in Endpoints
          /\ HasPendingInterrupt(turn'.thread_id) =>
                 /\ turn'.input.kind = "resume"
                 /\ turn'.input.resume \in UserMessages
          /\ ~HasPendingInterrupt(turn'.thread_id) =>
                 /\ turn'.input.kind = "fresh"
                 /\ Len(turn'.input.messages) = 1
                 /\ turn'.input.messages[1].type = "human"]_vars

C1_Witness ==
    /\ turn.kind = "turn"
    /\ turn.endpoint = "stream"
    /\ turn.input.kind = "resume"
    /\ turn.input.resume = "yes"
    /\ Len(store["saver"][turn.thread_id]) = 2
    /\ store["saver"][turn.thread_id][1].interrupts = <<>>

\* C2 as stated: once a turn on T ended with an interrupt, every later turn on T is
\* dispatched as a resume until a turn on T completes without interrupting, and
\* only after that as a fresh message.
C2_ResumeUntilCompleted ==
    [][Dispatches => (turn'.input.kind = "resume" <=> awaiting[turn'.thread_id])]_vars

\* C2 amended: a turn on T is dispatched as a resume exactly while the last
\* execution that moved T's checkpoint left an interrupt: from a turn that ended
\* with an interrupt until a turn on T completes without interrupting or raises
\* after its execution has moved the checkpoint past the interrupt; whichever
\* agent id, model or cached instance serves the turn.
C2_ResumeWhileInterruptPending ==
    [][Dispatches => (turn'.input.kind = "resume" <=> resume_due[turn'.thread_id])]_vars

C2_Witness ==
    /\ turn.kind = "turn"
    /\ turn.input.kind = "resume"
    /\ turn.instance = <<"mcp-agent", "m1">>
    /\ awaiting[turn.thread_id]
    /\ resume_due[turn.thread_id]

---------------------------------------------------------------------------
(* Claims about the stream of one response *)

\* C4: when the agent's event source is exhausted the response holds the [DONE]
\* unit exactly once and as its last unit; [DONE] never stands before another unit
\* and is never emitted while the event source is still being read.
C4_DoneOnceAndLast ==
    /\ sv_pc = "done" => (out # <<>> /\ out[Len(out)] = DoneUnit)
    /\ \A i \in 1..Len(out) :
           out[i] = DoneUnit => (i = Len(out) /\ sv_pc = "done")

\* A response closed after a token, a message and an error unit.
C4_Witness ==
    /\ sv_pc = "done"
    /\ Len(out) >= 3
    /\ out[Len(out)] = DoneUnit
    /\ \E i \in 1..Len(out) : out[i].type = "message"
    /\ \E i \in 1..Len(out) : out[i].type \in {"token", "error"}

\* C5: every response whose agent execution was started ends with [DONE], and one
\* that ended because the execution raised carries the generic error unit before it.
C5_ClosedWithDoneAfterFailure ==
    (sv_pc \in {"done", "aborted"} /\ sv_run # None) =>
        /\ out # <<>>
        /\ out[Len(out)] = DoneUnit
        /\ sv_pc = "aborted" => \E i \in 1..Len(out) : out[i] = ErrorUnit

---------------------------------------------------------------------------
(* Claims about folding a stream into the transcript *)

\* The item is a whole message unit of one of the types the transcript records.
IsWholeMessage(item) ==
    item.kind = "ChatMessage" /\ item.message.type \in {"ai", "tool", "custom"}

Occurrences(transcript, msg) ==
    Cardinality({i \in 1..Len(transcript) : transcript[i] = msg})

IsPrefix(s, t) == Len(s) <= Len(t) /\ SubSeq(t, 1, Len(s)) = s

\* C6: when draw_messages(is_new=True) takes an ai, tool or custom message that is
\* identical to an entry already in the transcript, the transcript is unchanged,
\* inside a tool-call span as well as outside.
C6_RedeliveryIsNoOp ==
    [][\A item \in Items :
          (DrawItem(item) /\ IsWholeMessage(item) /\ Occurrences(messages, item.message) > 0)
              => messages' = messages]_vars

\* A tool result of an earlier turn was delivered again inside the span of its AI
\* message in a later turn, and the transcript still holds it once.
C6_Witness ==
    /\ IsWholeMessage(last_item)
    /\ last_item.message.type = "tool"
    /\ dm.pc = "drawing"
    /\ dm.call_results # <<>>
    /\ dm.call_results[1].state = "complete"
    /\ Occurrences(messages, last_item.message) = 1
    /\ \E p, h \in 1..Len(messages) :
           p < h /\ messages[p] = last_item.message /\ messages[h].type = "human"

\* The rule the claim C7 states: appended unless an entry of the same type has
\* identical content (ai), (tool_call_id, content) (tool) or custom_data (custom).
C7_StatedRule(transcript, msg) ==
    ~\E i \in 1..Len(transcript) :
        /\ transcript[i].type = msg.type
        /\ CASE msg.type = "ai" -> transcript[i].content = msg.content
             [] msg.type = "tool" -> /\ transcript[i].tool_call_id = msg.tool_call_id
                                     /\ transcript[i].content = msg.content
             [] msg.type = "custom" -> transcript[i].custom_data = msg.custom_data

\* The rule of the code: inside a tool-call span only a tool result is appended; an
\* ai message needs content or tool calls and is a duplicate of an ai entry with the
\* same non-empty content or the same non-empty tool calls; a custom message needs
\* valid task data.
C7_AmendedRule(transcript, in_span, msg) ==
    CASE msg.type = "tool" ->
            ~\E i \in 1..Len(transcript) :
                /\ transcript[i].type = "tool"
                /\ transcript[i].tool_call_id = msg.tool_call_id
                /\ transcript[i].content = msg.content
      [] msg.type = "ai" ->
            /\ ~in_span
            /\ msg.content # "" \/ msg.tool_calls # <<>>
            /\ ~\E i \in 1..Len(transcript) :
                   /\ transcript[i].type = "ai"
                   /\ \/ msg.content # "" /\ transcript[i].content = msg.content
                      \/ msg.tool_calls # <<>> /\ transcript[i].tool_calls = msg.tool_calls
      [] msg.type = "custom" ->
            /\ ~in_span
            /\ ValidTaskData(msg.custom_data)
            /\ ~\E i \in 1..Len(transcript) :
                   transcript[i].type = "custom" /\ transcript[i].custom_data = msg.custom_data

\* C7 as stated: draw_messages(is_new=True) appends a whole message unit exactly
\* when the stated rule says so.
C7_AppendEqualsStatedRule ==
    [][\A item \in Items :
          (DrawItem(item) /\ IsWholeMessage(item)) =>
              messages' = IF C7_StatedRule(messages, item.message)
                          THEN Append(messages, item.message) ELSE messages]_vars

\* C7 amended: draw_messages(is_new=True) appends a whole message unit exactly when
\* the rule of the code says so, and changes the transcript in no other way.
C7_AppendEqualsAmendedRule ==
    [][\A item \in Items :
          (DrawItem(item) /\ IsWholeMessage(item)) =>
              messages' = IF C7_AmendedRule(messages, dm.pc = "span", item.message)
                          THEN Append(messages, item.message) ELSE messages]_vars

\* A second AI message with empty content and other tool calls was appended after
\* the first one.
C7_Witness ==
    /\ IsWholeMessage(last_item)
    /\ last_item.message.type = "ai"
    /\ last_item.message.content = ""
    /\ messages[Len(messages)] = last_item.message
    /\ \E i \in 1..(Len(messages) - 1) :
           /\ messages[i].type = "ai"
           /\ messages[i].content = ""
           /\ messages[i].tool_calls # last_item.message.tool_calls

DuplicateFree(transcript) ==
    \A i, j \in 1..Len(transcript) :
        i < j =>
            /\ ~(/\ transcript[i].type = "ai" /\ transcript[j].type = "ai"
                 /\ transcript[i].content # ""
                 /\ transcript[i].content = transcript[j].content)
            /\ ~(/\ transcript[i].type = "tool" /\ transcript[j].type = "tool"
                 /\ transcript[i].tool_call_id = transcript[j].tool_call_id
                 /\ transcript[i].content = transcript[j].content)
            /\ ~(/\ transcript[i].type = "custom" /\ transcript[j].type = "custom"
                 /\ transcript[i].custom_data = transcript[j].custom_data)

\* C9 as stated: over streamed and non-streamed turns the transcript never holds two
\* ai entries with the same non-empty content, two tool entries with the same
\* (tool_call_id, content) or two custom entries with the same custom_data.
C9_TranscriptDuplicateFree == DuplicateFree(messages)

\* C9 amended: a step of draw_messages on a stream (an item folded, or the end of
\* the stream) leaves a duplicate-free transcript duplicate-free.
C9_FoldPreservesDuplicateFreedom ==
    [][((\E item \in Items : DrawItem(item)) \/ DrawEnd) =>
          (DuplicateFree(messages) => DuplicateFree(messages'))]_vars

\* An AI message whose content an earlier turn's entry already has was folded, and
\* the transcript is duplicate-free.
C9_Witness ==
    /\ IsWholeMessage(last_item)
    /\ last_item.message.type = "ai"
    /\ last_item.message.content # ""
    /\ DuplicateFree(messages)
    /\ \E p, h \in 1..Len(messages) :
           /\ p < h
           /\ messages[p].type = "ai"
           /\ messages[p].content = last_item.message.content
           /\ messages[p] # last_item.message
           /\ messages[h].type = "human"

\* C10: every step leaves the transcript as a prefix of the new transcript, except
\* New Chat, which empties it.
C10_TranscriptMonotonic ==
    [][IsPrefix(messages, messages') \/ (NewChat /\ messages' = <<>>)]_vars

\* After a New Chat, a message of the next turn's stream was appended behind that
\* turn's human entry.
C10_Witness ==
    /\ n_turns = 2
    /\ Len(messages) = 2
    /\ messages[1].type = "human"
    /\ IsWholeMessage(last_item)
    /\ messages[2] = last_item.message

---------------------------------------------------------------------------
(* Claims about streamed turns end to end *)

\* The response of the last turn is complete, draw_messages is no longer folding it
\* and the transcript is the one it left.
TurnFolded ==
    /\ n_turns > 0
    /\ messages # <<>>
    /\ sv_pc = "done"
    /\ dm.pc \notin {"drawing", "span"}

\* C3: after a streamed turn whose run completed normally with a non-empty final AI
\* message without tool calls, the transcript holds exactly one ai entry with that
\* content, with and without token streaming.
C3_ExactlyOneFinalAnswer ==
    TurnFolded =>
        Cardinality({i \in 1..Len(messages) :
                        messages[i].type = "ai" /\ messages[i].content = agent_run.final}) = 1

\* C8: after the whole stream of a turn was folded, every ai, tool and custom message
\* unit the service emitted in the turn has exactly one transcript entry of its own,
\* also when an earlier turn's message has the same content.
C8_EachEmittedMessageOnce ==
    (TurnFolded /\ dm.pc = "returned" /\ rd = Len(out)) =>
        \A k \in 1..Len(out) :
            (out[k].type = "message" /\ out[k].message.type \in {"ai", "tool", "custom"})
                => Occurrences(messages, out[k].message) = 1

----------------------------------------------------------------------------
(* Agent construction under concurrent requests (SpecLookup) *)

\* The configuration a caller asked for, once its lookup has returned.
AskedKey(t) == InstanceKey(task[t].agent_id, task[t].model_name)

\* C11: at most one agent instance is ever constructed per configuration key, and
\* all callers whose lookup for a key has returned hold the same instance: no two
\* lookups of one key, from lifespan or from requests in flight together, both run
\* initialize_agent.
C11_OneInstancePerKey ==
    /\ \A i, j \in 1..Len(instances) :
          instances[i].key = instances[j].key => i = j
    /\ \A t, u \in LookupTasks :
          (task[t].pc = "returned" /\ task[u].pc = "returned"
             /\ AskedKey(t) = AskedKey(u)) => task[t].got = task[u].got

\* Two requests in flight hold the model-specific instance of one key, built once
\* beside the two default instances.
C11_Witness ==
    /\ task[1].pc = "returned" /\ task[2].pc = "returned"
    /\ AskedKey(1) = "mcp-agent:m1" /\ AskedKey(2) = "mcp-agent:m1"
    /\ task[1].got = task[2].got /\ task[1].got # NoInstance
    /\ Len(instances) = 3

----------------------------------------------------------------------------
(* The checkpoint store behind a served turn (Spec) *)

\* C12: every agent instance that serves a turn, a registered default instance or a
\* model-specific one built on demand, has the saver opened by lifespan attached
\* as its checkpointer when the turn uses it.
C12_ServingInstanceHasSaver ==
    turn.kind = "turn" => (saver = "saver" /\ turn.checkpointer = saver)

\* A turn is being served by a model-specific instance built on demand; it and the
\* registered default instances hold the lifespan saver.
C12_Witness ==
    /\ turn.kind = "turn"
    /\ turn.instance = <<"mcp-agent", "m1">>
    /\ turn.checkpointer = "saver"
    /\ registry_cp["research-assistant"] = "saver"
    /\ agent_cache["m1"] = "saver"

----------------------------------------------------------------------------
(* What message_generator emits for a turn (SpecTurns, SpecStream) *)

\* The unit is a whole ai message without tool calls.
IsPlainAiUnit(unit) ==
    /\ unit.type = "message"
    /\ unit.message.type = "ai"
    /\ unit.message.tool_calls = <<>>

\* C13: when the turn asked for token streaming, the last AI message of the turn
\* that has no tool calls -- the run's final answer -- is not emitted as a whole
\* message unit: the finished response holds no such unit with the final answer.
C13_FinalAnswerNotEmittedWhole ==
    (sv_pc = "done" /\ sv_input.stream_tokens /\ n_events > 0) =>
        ~\E i \in 1..Len(out) :
            IsPlainAiUnit(out[i]) /\ out[i].message.content = agent_run.final

\* The step appends a token unit to the response.
TokenAppended == \E i \in (Len(out) + 1)..Len(out') : out'[i].type = "token"

\* The event is a token delta that is due to the client: token streaming was asked
\* for, the event's metadata has no 'skip_stream' tag, the message is an AI message
\* chunk and its content is not empty once the tool-call parts are removed.
TokenDue(event, input) ==
    /\ event.mode = "messages"
    /\ input.stream_tokens
    /\ event.skip_stream = FALSE
    /\ event.chunk.cls = "AIMessageChunk"
    /\ ChunkText(event.chunk) # ""

Appended == SubSeq(out', Len(out) + 1, Len(out'))

\* The step appends a whole human message unit with this content.
HumanAppended(content) ==
    \E i \in 1..Len(Appended) :
        /\ Appended[i].type = "message"
        /\ Appended[i].message.type = "human"
        /\ Appended[i].message.content = content

\* The contents of the human messages the event carries: in the messages of its
\* node updates, or as its custom payload.
EventHumans(event) ==
    CASE event.mode = "updates" ->
            { event.entries[i].payload.messages[j].content :
                <<i, j>> \in { p \in (1..Len(event.entries)) \X (1..4) :
                                 /\ p[2] <= Len(event.entries[p[1]].payload.messages)
                                 /\ event.entries[p[1]].payload.messages[p[2]].cls = "human" } }
      [] event.mode = "custom" ->
            IF event.payload.cls = "human" THEN {event.payload.content} ELSE {}
      [] OTHER -> {}

\* The contents of the human messages among the messages the event is translated
\* into (after the special cases of the supervisor and sub-agent nodes).
TranslatedHumans(event) ==
    { new_messages(event)[i].content :
        i \in { k \in 1..Len(new_messages(event)) : new_messages(event)[k].cls = "human" } }

\* C15 as stated: message_generator never emits a human message unit whose content
\* equals the message that started the turn, and every human message with another
\* content that an event carries is emitted.
C15_StatedRule ==
    [][\A event \in Events : StreamEvent(event) =>
          /\ ~HumanAppended(sv_input.message)
          /\ \A content \in EventHumans(event) \ {sv_input.message} :
                HumanAppended(content)]_vars

\* C15 amended: message_generator never emits a human message unit whose content
\* equals the message that started the turn, and every human message with another
\* content among the messages the event is translated into is emitted.
C15_AmendedRule ==
    [][\A event \in Events : StreamEvent(event) =>
          /\ ~HumanAppended(sv_input.message)
          /\ \A content \in TranslatedHumans(event) \ {sv_input.message} :
                HumanAppended(content)]_vars

\* One update's echo of the input was dropped and its tool-calling message kept;
\* another update's human message with a different content was emitted.
C15_Witness ==
    /\ sv_pc = "streaming"
    /\ n_events = 2
    /\ Len(out) = 3
    /\ \E i \in 1..Len(out) :
          out[i].message.type = "human" /\ out[i].message.content = "yes"
    /\ \E i \in 1..Len(out) : out[i].message.tool_calls = <<c1>>
    /\ ~\E i \in 1..Len(out) :
          out[i].message.type = "human" /\ out[i].message.content = sv_input.message

----------------------------------------------------------------------------
(* Human entries of the transcript (SpecFold) *)

HumanCount(transcript) ==
    Cardinality({i \in 1..Len(transcript) : transcript[i].type = "human"})

\* The step is a submission of user input.
Submits == n_turns' = n_turns + 1

\* C16 as stated: after any sequence of N submissions the transcript holds exactly
\* N human entries.
C16_StatedCount == HumanCount(messages) = n_turns

\* C16 amended: a submission appends exactly one human entry, directly behind the
\* transcript as it was and so before anything its turn produces; folding a stream
\* leaves the number of human entries as it is; only New Chat, which empties the
\* transcript, removes any.
C16_OneHumanEntryPerSubmission ==
    [][/\ Submits =>
            /\ IsPrefix(messages, messages')
            /\ Len(messages') > Len(messages)
            /\ messages'[Len(messages) + 1].type = "human"
            /\ HumanCount(messages') = HumanCount(messages) + 1
       /\ ~Submits =>
            \/ HumanCount(messages') = HumanCount(messages)
            \/ (NewChat /\ messages' = <<>>)]_vars

\* In the second turn of a chat a human unit of the stream has just been folded:
\* the transcript holds the two human entries of the two submissions.
C16_Witness ==
    /\ n_turns = 2
    /\ dm.pc = "drawing"
    /\ last_item.kind = "ChatMessage"
    /\ last_item.message.type = "human"
    /\ HumanCount(messages) = 2
    /\ messages[Len(messages)].type # "human"

----------------------------------------------------------------------------
(* Tool message units of a response (SpecStream) *)

IsToolUnit(unit) == unit.type = "message" /\ unit.message.type = "tool"

\* The synthetic ids handed out so far.
SyntheticIds == {TempToolId(n) : n \in 1..(next_uuid - 1)}

\* C17: every tool message unit of a response carries a non-empty tool_call_id, and
\* no two units of the response carry the same synthetic id.
C17_ToolUnitsCarryIds ==
    /\ \A i \in 1..Len(out) :
          IsToolUnit(out[i]) =>
              out[i].message.tool_call_id \notin {None, ""}
    /\ \A i, j \in 1..Len(out) :
          (/\ IsToolUnit(out[i]) /\ IsToolUnit(out[j])
           /\ out[i].message.tool_call_id \in SyntheticIds
           /\ out[i].message.tool_call_id = out[j].message.tool_call_id) => i = j

\* A response with the message of a sub-agent step and two tool messages that came
\* without an id in one update: three different synthetic ids.
C17_Witness ==
    /\ Len(out) = 3
    /\ \A i \in 1..3 : IsToolUnit(out[i]) /\ out[i].message.tool_call_id \in SyntheticIds
    /\ out[1].message.content = "4"
    /\ out[2].message.content = "r1" /\ out[3].message.content = "r1"
    /\ Cardinality({out[i].message.tool_call_id : i \in 1..3}) = 3

----------------------------------------------------------------------------
(* Sub-agent steps (SpecStream) and interrupt steps (SpecInterrupts) *)

\* The event is the state update of one sub-agent step.
IsSubAgentUpdate(event) ==
    /\ event.mode = "updates"
    /\ Len(event.entries) = 1
    /\ event.entries[1].node \in SubAgentNodes
    /\ event.entries[1].payload.kind = "messages"

\* C18: for the state update of a sub-agent step (research_expert, math_expert)
\* every message of the step is emitted, in order, as a tool message unit with the
\* content of the original message -- none as an ai message, none lost -- whether
\* the step produced no message, one or several.
C18_SubAgentMessagesRetagged ==
    [][\A event \in Events :
          (IsSubAgentUpdate(event) /\ (StreamEvent(event) \/ StreamEventRaises(event))) =>
              LET msgs == event.entries[1].payload.messages
              IN  /\ sv_pc' = "streaming"
                  /\ Len(Appended) = Len(msgs)
                  /\ \A i \in 1..Len(msgs) :
                        /\ IsToolUnit(Appended[i])
                        /\ Appended[i].message.content = msgs[i].content]_vars

\* The event or chunk is the state update of an interrupt step.
IsInterruptStep(event) ==
    /\ event.mode = "updates"
    /\ Len(event.entries) = 1
    /\ event.entries[1].node = "__interrupt__"

----------------------------------------------------------------------------
(* The span of an AI message with tool calls (SpecFold) *)

\* C20: when draw_messages folds an AI message with N tool calls it sets out to take
\* N tool results from the stream, also when calls share an id, and the span of the
\* message closes only by taking the last of them: it takes neither fewer nor more,
\* whatever follows in the stream.
C20_SpanTakesOneResultPerCall ==
    [][/\ \A item \in Items :
            (/\ DrawItem(item)
             /\ dm.pc = "drawing"
             /\ item.kind = "ChatMessage"
             /\ item.message.type = "ai"
             /\ item.message.tool_calls # <<>>) =>
                 /\ dm'.pc = "span"
                 /\ dm'.remaining = Len(item.message.tool_calls)
       /\ (dm.pc = "span" /\ dm'.pc # "span") =>
             /\ dm.remaining = 1
             /\ last_item'.kind = "ChatMessage"
             /\ last_item'.message.type = "tool"]_vars

----------------------------------------------------------------------------
(* Tool results without a matching call (SpecTurns) *)

\* The slots of the span that have not yet received a result.
OpenSlots(slots) == {i \in 1..Len(slots) : slots[i].output = None}

\* The client takes, inside a span, a tool result whose id is none of the span's.
TakesUnmatchedResult ==
    /\ dm.pc = "span"
    /\ rd' = rd + 1
    /\ rd < Len(out)
    /\ out[rd + 1].type = "message"
    /\ out[rd + 1].message.type = "tool"
    /\ \A i \in 1..Len(dm.call_results) :
          dm.call_results[i].id # out[rd + 1].message.tool_call_id

\* C21: a tool result that arrives inside a span with an id matching none of the
\* span's calls is kept -- draw_messages goes on and the result is in the
\* transcript -- and it is attached to the first slot of the span that is still
\* open, the other slots staying as they are.
C21_UnmatchedResultToFirstOpenSlot ==
    [][TakesUnmatchedResult =>
          LET result == out[rd + 1].message
              open == OpenSlots(dm.call_results)
              first == CHOOSE i \in open : \A j \in open : i <= j
          IN  /\ dm'.pc \in {"drawing", "span"}
              /\ \E i \in 1..Len(messages') : messages'[i] = result
              /\ open # {}
              /\ dm'.call_results[first].output = result.content
              /\ \A i \in 1..Len(dm.call_results) :
                    i # first => dm'.call_results[i] = dm.call_results[i]]_vars

----------------------------------------------------------------------------
(* Rendering errors in draw_messages (SpecFold) *)

\* C22: whatever unit draw_messages takes from the stream -- of unexpected shape or
\* type, a token or a non-tool message while tool results are awaited, an unmatched
\* tool result, malformed custom data -- it goes on folding: the call is neither
\* stopped (st.stop) nor ended by an exception.
C22_FoldingContinues ==
    [][\A item \in Items :
          DrawItem(item) => dm'.pc \in {"drawing", "span"}]_vars

----------------------------------------------------------------------------
(* Failures while translating an event (SpecStream) *)

\* Translating the event fails somewhere: while its messages are extracted, or
\* while one of them is converted.
TranslationFails(event) ==
    \/ /\ event.mode = "updates"
       /\ \E i \in 1..Len(event.entries) :
             \/ event.entries[i].payload.kind = "none"
             \/ /\ event.entries[i].node \in SubAgentNodes
                /\ event.entries[i].payload.messages = <<>>
    \/ /\ event.mode = "custom"
       /\ event.payload.cls = "system"
    \/ /\ event.mode = "updates"
       /\ \E i \in 1..Len(event.entries) :
             /\ event.entries[i].node \notin SubAgentNodes \cup {"__interrupt__"}
             /\ \E j \in 1..Len(event.entries[i].payload.messages) :
                   event.entries[i].payload.messages[j].cls = "system"

\* C23: when translating an event fails, message_generator emits an error unit and
\* goes on with the remaining messages and events: no event handed to it ends the
\* generator.
C23_FailedEventSkipped ==
    [][\A event \in Events :
          (StreamEvent(event) \/ StreamEventRaises(event)) =>
              /\ sv_pc' = "streaming"
              /\ TranslationFails(event) =>
                    \E i \in 1..Len(Appended) : Appended[i].type = "error"]_vars

----------------------------------------------------------------------------
(* What a failure tells the client (SpecInterrupts) *)

\* The last chunk of what ainvoke returned is of a type invoke does not expect.
EndsUnexpectedly(response_events) ==
    LET last == response_events[Len(response_events)]
    IN  last.mode = "updates" /\ ~IsInterruptStep(last)

\* C24: an exception raised while an invoke turn is served -- by the agent
\* execution, or for an unexpected type of the final chunk -- is answered with
\* status 500 and the fixed text "Unexpected error", never the exception's text;
\* every error unit of a streamed response has that fixed text as content.
C24_FailuresAreGeneric ==
    [][/\ \A exception \in Exceptions :
            InvokeRaises(exception) =>
                /\ invoke_response'.status = 500
                /\ invoke_response'.detail = "Unexpected error"
       /\ \A response_events \in InvokeRuns :
            (Invoke(response_events) /\ EndsUnexpectedly(response_events)) =>
                /\ invoke_response'.status = 500
                /\ invoke_response'.detail = "Unexpected error"
       /\ \A i \in 1..Len(out') :
            out'[i].type = "error" => out'[i].text = "Unexpected error"]_vars

\* A /invoke request was answered with the 500 and a streamed response holds an
\* error unit, followed by the message translated after it.
C24_Witness ==
    /\ invoke_response.status = 500
    /\ Len(out) = 2
    /\ out[1].type = "error"
    /\ out[2].type = "message"

---------------------------------------------------------------------------
(* An unknown agent identifier *)

\* What the caller sees of a turn that was refused before the agent ran. The
\* handler of /invoke raises before it returns: an HTTPException is answered with
\* its status code, any other exception with a 500. The handler of /stream returns
\* the StreamingResponse at once and message_generator runs when the body is
\* sent, after the 200 status line: whatever it raises only cuts the body short.
ClientStatus(t) ==
    IF t.endpoint = "stream" THEN 200
    ELSE IF t.error = "422" THEN 422
    ELSE 500

\* C25: a turn submitted (invoke or stream) for an agent identifier that is not
\* registered is reported to the caller as a 4xx-class 'agent not found' failure.
\* The code raises ValueError from get_agent, which no handler turns into an
\* HTTP error: /invoke answers 500 and /stream answers 200 with a cut body.
C25_UnknownAgentIs4xx ==
    (turn.kind = "rejected" /\ turn.error = "ValueError")
        => ClientStatus(turn) \in 400..499

---------------------------------------------------------------------------
(* Reserved keys of agent_config *)

\* C26: a turn whose agent_config has the key thread_id or the key model is
\* refused by _handle_input with a 422, so it never reaches the state read nor
\* the execution; a turn that is dispatched has neither key, and its configurable
\* holds every pair of agent_config unchanged beside thread_id and model with the
\* values of the request, and nothing else.
C26_ReservedKeysRejected ==
    /\ (turn.kind = "rejected" /\ turn.error = "422")
          => {"thread_id", "model"} \cap Keys(turn.agent_config) # {}
    /\ turn.kind = "turn"
          => /\ {"thread_id", "model"} \cap Keys(turn.agent_config) = {}
             /\ turn.configurable =
                   turn.agent_config
                      \cup {<<"thread_id", turn.thread_id>>, <<"model", turn.model>>}

\* A turn whose agent_config names a reserved key was refused with 422.
C26_Witness ==
    /\ turn.kind = "rejected"
    /\ turn.error = "422"

---------------------------------------------------------------------------
(* The scratch buffer at the end of the stream *)

\* C27: when the stream of a new turn ends outside a tool span with a non-empty
\* scratch buffer (tokens that no whole ai message replaced), the transcript
\* holds an ai entry whose content is exactly the buffer, also when an earlier ai
\* message of the turn was appended. The code skips the block once any ai message
\* with content was appended (final_message_appended), so the tokens are dropped.
C27_ScratchFinalized ==
    [][(DrawEnd /\ dm.pc = "drawing" /\ dm.is_new /\ dm.streaming_content # "")
         => \E i \in 1..Len(messages') :
               /\ messages'[i].type = "ai"
               /\ messages'[i].content = dm.streaming_content]_vars

---------------------------------------------------------------------------
(* The order of the units *)

\* The message of an event is yielded as a unit: it is not the echo of the input.
IsEmitted(message, input) ==
    ~Convertible(message) \/ ~IsInputEcho(langchain_to_chat_message(message), input)

\* The messages of an event that are yielded, in the order of the event.
RECURSIVE EmittedOf(_, _)
EmittedOf(msgs, input) ==
    IF msgs = <<>> THEN <<>>
    ELSE (IF IsEmitted(Head(msgs), input) THEN <<Head(msgs)>> ELSE <<>>)
            \o EmittedOf(Tail(msgs), input)

\* The unit is the one of this message: the error unit of a message that cannot be
\* converted, else a message unit with its type and content.
DerivedFrom(unit, message) ==
    IF ~Convertible(message) THEN unit = ErrorUnit
    ELSE LET chat_message == langchain_to_chat_message(message)
         IN  /\ unit.type = "message"
             /\ unit.message.type = chat_message.type
             /\ unit.message.content = chat_message.content
             /\ unit.message.tool_calls = chat_message.tool_calls
             /\ unit.message.custom_data = chat_message.custom_data

\* C28: the units of message_generator keep the order of the event source: the
\* units of an event are appended after every unit of the earlier events, all of
\* them in that same step (none is held back for a later step), the message units
\* in the order the messages have in the event and before the token of the event;
\* the end of the source appends the end marker and nothing else.
C28_UnitsInEventOrder ==
    [][/\ \A event \in Events : StreamEvent(event) =>
            LET emitted == EmittedOf(new_messages(event), sv_input)
                n == Len(emitted)
            IN  /\ Len(out') >= Len(out)
                /\ SubSeq(out', 1, Len(out)) = out
                /\ Len(Appended) = n + Len(TokenUnits(event, sv_input))
                /\ \A i \in 1..Len(Appended) :
                      IF i <= n THEN DerivedFrom(Appended[i], emitted[i])
                      ELSE Appended[i].type = "token"
       /\ StreamExhausted => out' = Append(out, DoneUnit)]_vars

\* Two events were translated: the two messages of the first in their order, then
\* the token of the second.
C28_Witness ==
    /\ sv_pc = "streaming"
    /\ n_events = 2
    /\ Len(out) = 3
    /\ out[1].type = "message" /\ out[1].message.type = "human"
    /\ out[2].type = "message" /\ out[2].message.type = "ai"
    /\ out[3].type = "token"

---------------------------------------------------------------------------
(* The run_id of a turn *)

\* C29: every turn is given a fresh run_id by _handle_input, and every message
\* unit message_generator has yielded for the turn, like the message invoke has
\* returned for it, carries exactly that run_id; the turns served on the two
\* connections at the same time never share a run_id.
C29_RunIdPerTurn ==
    /\ \A r \in Connections :
          frames[r].run_id # None =>
             /\ \A i \in 1..Len(frames[r].units) :
                   frames[r].units[i].type = "message"
                      => frames[r].units[i].message.run_id = frames[r].run_id
             /\ frames[r].message # NoMessage
                   => frames[r].message.run_id = frames[r].run_id
    /\ \A r1 \in Connections, r2 \in Connections :
          (r1 # r2 /\ frames[r1].run_id # None /\ frames[r2].run_id # None)
             => frames[r1].run_id # frames[r2].run_id

\* Two turns on different threads are in flight together: the stream of the
\* first has yielded a message and is still open, invoke has answered the second.
C29_Witness ==
    /\ frames["conn1"].endpoint = "stream"
    /\ frames["conn1"].pc = "running"
    /\ frames["conn1"].run_id = RunId(1)
    /\ Len(frames["conn1"].units) = 1
    /\ frames["conn1"].units[1].type = "message"
    /\ frames["conn2"].endpoint = "invoke"
    /\ frames["conn2"].run_id = RunId(2)
    /\ frames["conn2"].message # NoMessage
    /\ frames["conn1"].thread_id # frames["conn2"].thread_id

---------------------------------------------------------------------------
(* verify_bearer *)

\* The request is entitled to an answer: no secret is configured (AUTH_SECRET is
\* unset or empty), or it carries bearer credentials equal to the secret.
Entitled(authorization) ==
    \/ auth_secret = None
    \/ auth_secret = ""
    \/ /\ authorization.scheme = "Bearer"
       /\ authorization.credentials = auth_secret

\* C30: with no AUTH_SECRET configured every request to an endpoint of the router
\* is admitted whatever its Authorization header; with a secret configured a
\* request is admitted only if it carries bearer credentials equal to the secret,
\* and any other request is answered 401 without the handler running (no run_id
\* is drawn, nothing is yielded or returned).
C30_BearerGate ==
    [][\A r \in Connections, h \in Headers, e \in RouterEndpoints, t \in Threads :
          (Unauthorized(r, h, e) \/ (e = "info" /\ Info(r, h)) \/ HandleInput(r, h, e, t))
          => IF Entitled(h)
             THEN frames'[r].status # 401 /\ frames'[r].endpoint = e
             ELSE /\ frames'[r].status = 401
                  /\ frames'[r].run_id = None
                  /\ frames'[r].units = <<>>
                  /\ frames'[r].message = NoMessage
                  /\ n_runs' = n_runs]_vars

\* With the secret configured, a request was answered 401 while the other
\* connection was admitted and is being served.
C30_Witness ==
    /\ auth_secret = "s3cret"
    /\ frames["conn1"].status = 401
    /\ frames["conn1"].pc = "returned"
    /\ frames["conn2"].pc = "running"

---------------------------------------------------------------------------
(* A refused turn and the instance cache *)

\* C31: a turn refused for a reserved key in agent_config leaves _agent_cache as
\* it was and has no instance constructed for it. The code looks the agent up
\* before _handle_input runs, so a refused turn for "mcp-agent" with a model not
\* yet cached has already constructed and cached an instance.
C31_RefusedTurnLeavesCache ==
    [][(turn' # turn /\ turn'.kind = "rejected" /\ turn'.error = "422")
         => agent_cache' = agent_cache]_vars

---------------------------------------------------------------------------
(* get_tools and the state of the MCP client *)

\* C32: get_tools never hands out the tool list of a client whose __aenter__ has
\* not completed or has failed. A construction that finds the module's client
\* already created takes `_mcp_client.get_tools()` at once; the code creates the
\* client before awaiting __aenter__ and keeps it after a failure, so the client
\* it reads may be one whose setup raised.
C32_ToolsOnlyFromEnteredClient ==
    [][\A t \in LookupTasks, agent_id \in AgentIds, model_name \in ModelArgs :
          LookupBuilds(t, agent_id, model_name)
             => mcp_client[ModuleOf(agent_id, model_name)] = "ready"]_vars

---------------------------------------------------------------------------
(* The run the feedback is recorded against *)

\* C33: whenever the feedback widget is handled after a turn, the last entry of
\* the transcript carries the run_id of that turn, which is not null. The entry
\* made from the scratch buffer has no run_id, and when the answer repeats an
\* earlier entry nothing is appended, so the last entry is the human one.
C33_FeedbackOnRunOfTurn ==
    [][\A click \in Scores \cup {None}, ok \in BOOLEAN :
          HandleFeedback(click, ok) => messages[Len(messages)].run_id # None]_vars

---------------------------------------------------------------------------
(* Feedback submitted once *)

\* C34 as stated: for one selection (run_id, score), whatever the number of script
\* runs, acreate_feedback is called once. A call that fails is made again by the
\* next script run.
C34_StatedRule == attempts <= 1

\* C34: for one selection (run_id, score), whatever the number of script runs, at
\* most one call of acreate_feedback succeeds, and last_feedback is the selection
\* once it has; while a score is selected, either last_feedback is the selection
\* or a call for it was made and failed, last_feedback staying as it was.
C34_AmendedRule ==
    /\ recorded <= 1
    /\ recorded = 1 => last_feedback = <<stars.key, stars.value>>
    /\ stars.value # None
          => \/ last_feedback = <<stars.key, stars.value>>
             \/ attempts >= 1 /\ recorded = 0

\* Three script runs have handled the widget with the score "2" on the answer of
\* the first turn, and one call was made, which succeeded.
C34_Witness ==
    /\ n_reruns = 3
    /\ stars = [key |-> RunId(1), value |-> "2"]
    /\ last_feedback = <<RunId(1), "2">>
    /\ attempts = 1
    /\ recorded = 1

---------------------------------------------------------------------------
(* The thread of a chat *)

\* C35: the thread_id of the session changes only in the script run that finds
\* start_new_chat set; that run empties the transcript, installs a thread_id no
\* earlier turn was sent on and clears the flag; every turn is sent on the
\* thread_id of the session, so the turns of one chat share their thread and the
\* turns of different chats never do.
C35_ThreadUntilNewChat ==
    [][/\ ss_thread_id' # ss_thread_id
            => /\ start_new_chat /\ ~start_new_chat'
               /\ \A i \in 1..Len(turns_sent) :
                     turns_sent[i].thread_id # ss_thread_id'
       /\ (start_new_chat /\ ~start_new_chat')
            => messages' = <<>> /\ ss_thread_id' # ss_thread_id
       /\ turns_sent' # turns_sent
            => /\ turns_sent'[Len(turns_sent')].thread_id = ss_thread_id
               /\ ss_thread_id' = ss_thread_id
       /\ \A i \in 1..Len(turns_sent'), j \in 1..Len(turns_sent') :
             turns_sent'[i].chat = turns_sent'[j].chat
                <=> turns_sent'[i].thread_id = turns_sent'[j].thread_id]_vars

\* A turn was sent in the first chat and, after New Chat, a turn in the second:
\* on another thread, and the transcript holds the entries of the second only.
C35_Witness ==
    /\ n_chats = 1
    /\ ~start_new_chat
    /\ Len(turns_sent) = 2
    /\ turns_sent[1].thread_id = SessionId
    /\ turns_sent[2].thread_id = NewThreadId(1)
    /\ Len(messages) = 2
    /\ messages[2].run_id = RunId(2)

---------------------------------------------------------------------------
(* The update of a supervisor step *)

\* The event is the state update of one supervisor step.
IsSupervisorStep(event) ==
    /\ event.mode = "updates"
    /\ Len(event.entries) = 1
    /\ event.entries[1].node = "supervisor"
    /\ event.entries[1].payload.kind = "messages"

\* C36: for the state update of a supervisor step message_generator emits at most
\* one message unit. The code keeps the last AI message only when the step has
\* one; the messages of a step without an AI message are all emitted.
C36_SupervisorEmitsAtMostOne ==
    [][\A event \in Events :
          (StreamEvent(event) /\ IsSupervisorStep(event)) => Len(Appended) <= 1]_vars

=============================================================================
